---- MODULE Spec2Model ----
(***************************************************************************)
(* Event-sourced project store of the network simulation platform:         *)
(*   - the reducer applySimulationEvent and the normalizers                *)
(*     (src/src/shared/simulation.ts),                                     *)
(*   - the authoritative InMemoryProjectStore                              *)
(*     (src/src/backend/projectStore.ts),                                  *)
(*   - the REST handlers, the validator and the WebSocket hub              *)
(*     (server code listed at the end of src/docs/data-contracts.md),      *)
(*   - the replica store useNetworkStore (src/unnamed/part_004).           *)
(***************************************************************************)
EXTENDS Integers, Sequences, FiniteSets, TLC

(***************************************************************************)
(* JavaScript numbers.                                                     *)
(*                                                                         *)
(* Counters (totalPackets, droppedPackets, currentTick, ...) stay small    *)
(* integers, which IEEE-754 doubles represent exactly.  averageLatencyMs   *)
(* is the result of a multiplication, an addition and a division, each     *)
(* rounded to a 53-bit significand, so it is modelled as a binary64 value: *)
(* a significand m (an arbitrary-precision natural, little-endian limbs in *)
(* base 2^15) and an exponent e, value m * 2^e, kept canonical (m odd, or  *)
(* m = 0 and e = 0).  Only non-negative finite values, NaN, undefined and  *)
(* null occur.                                                             *)
(***************************************************************************)
LimbBits == 15

LimbBase == 32768

SignificandBits == 53

RECURSIVE Pow2(_)
Pow2(k) == IF k = 0 THEN 1 ELSE 2 * Pow2(k - 1)

RECURSIVE BigNorm(_)
BigNorm(n) ==
  IF n = <<>> THEN <<>>
  ELSE IF n[Len(n)] = 0 THEN BigNorm(SubSeq(n, 1, Len(n) - 1))
  ELSE n

RECURSIVE BigFromInt(_)
BigFromInt(i) ==
  IF i = 0 THEN <<>> ELSE <<i % LimbBase>> \o BigFromInt(i \div LimbBase)

RECURSIVE BigMulCarry(_, _, _)
BigMulCarry(n, c, carry) ==
  IF n = <<>> THEN BigFromInt(carry)
  ELSE LET t == n[1] * c + carry
       IN  <<t % LimbBase>> \o BigMulCarry(Tail(n), c, t \div LimbBase)

\* n * c for a small factor 0 <= c < 2^15
BigMulSmall(n, c) == BigNorm(BigMulCarry(n, c, 0))

RECURSIVE BigAddCarry(_, _, _)
BigAddCarry(a, b, carry) ==
  IF a = <<>> /\ b = <<>> THEN BigFromInt(carry)
  ELSE LET x == IF a = <<>> THEN 0 ELSE a[1]
           y == IF b = <<>> THEN 0 ELSE b[1]
           t == x + y + carry
       IN  <<t % LimbBase>>
             \o BigAddCarry(IF a = <<>> THEN <<>> ELSE Tail(a),
                            IF b = <<>> THEN <<>> ELSE Tail(b),
                            t \div LimbBase)

BigAdd(a, b) == BigNorm(BigAddCarry(a, b, 0))

\* long division by a small divisor 0 < d < 2^15, most significant limb first
RECURSIVE BigDivRem(_, _, _)
BigDivRem(n, d, i) ==
  IF i = 0 THEN [q |-> <<>>, r |-> 0]
  ELSE LET hi  == BigDivRem(n, d, i - 1)
           pos == Len(n) - i + 1
           t   == hi.r * LimbBase + n[pos]
       IN  [q |-> <<t \div d>> \o hi.q, r |-> t % d]

BigDivSmall(n, d) ==
  LET res == BigDivRem(n, d, Len(n))
  IN  [q |-> BigNorm(res.q), r |-> res.r]

RECURSIVE IntBitLen(_)
IntBitLen(i) == IF i = 0 THEN 0 ELSE 1 + IntBitLen(i \div 2)

BigBitLen(n) ==
  IF n = <<>> THEN 0 ELSE LimbBits * (Len(n) - 1) + IntBitLen(n[Len(n)])

RECURSIVE Zeros(_)
Zeros(k) == IF k = 0 THEN <<>> ELSE <<0>> \o Zeros(k - 1)

\* n * 2^k
BigShl(n, k) ==
  IF n = <<>> THEN <<>>
  ELSE BigMulSmall(Zeros(k \div LimbBits) \o n, Pow2(k % LimbBits))

\* floor(n / 2^k)
BigShr(n, k) ==
  IF k \div LimbBits >= Len(n) THEN <<>>
  ELSE BigDivSmall(SubSeq(n, (k \div LimbBits) + 1, Len(n)), Pow2(k % LimbBits)).q

\* bit i (0 = least significant) of n
BigBit(n, i) ==
  IF (i \div LimbBits) + 1 > Len(n) THEN 0
  ELSE (n[(i \div LimbBits) + 1] \div Pow2(i % LimbBits)) % 2

\* n mod 2^k = 0
BigLowIsZero(n, k) ==
  /\ \A j \in 1..(k \div LimbBits) : j > Len(n) \/ n[j] = 0
  /\ \/ (k \div LimbBits) + 1 > Len(n)
     \/ n[(k \div LimbBits) + 1] % Pow2(k % LimbBits) = 0

BigIsOdd(n) == n # <<>> /\ n[1] % 2 = 1

JsNumber(m, e) == [tag |-> "number", m |-> m, e |-> e]

JsUndefined == [tag |-> "undefined", m |-> <<>>, e |-> 0]

JsNaN == [tag |-> "NaN", m |-> <<>>, e |-> 0]

\* canonical form: strip the trailing zero bits of the significand
RECURSIVE Canonical(_, _)
Canonical(m, e) ==
  IF m = <<>> THEN JsNumber(<<>>, 0)
  ELSE IF BigIsOdd(m) THEN JsNumber(m, e)
  ELSE Canonical(BigShr(m, 1), e + 1)

\* the double of a small non-negative integer
FromInt(i) == Canonical(BigFromInt(i), 0)

\* round-to-nearest, ties-to-even, of (m + f) * 2^e to 53 significant bits, where
\* 0 <= f < 1 and sticky says f > 0 (the discarded part of an inexact quotient)
RoundToDouble(m, e, sticky) ==
  LET len == BigBitLen(m)
      s   == len - SignificandBits
  IN  IF s <= 0 THEN Canonical(m, e)
      ELSE LET q        == BigShr(m, s)
               half     == BigBit(m, s - 1) = 1
               restZero == BigLowIsZero(m, s - 1) /\ ~sticky
               roundUp  == half /\ (~restZero \/ BigIsOdd(q))
           IN  Canonical(IF roundUp THEN BigAdd(q, <<1>>) ELSE q, e + s)

Min(a, b) == IF a < b THEN a ELSE b

\* ToNumber: undefined -> NaN, null -> +0
ToNumber(v) ==
  IF v.tag = "undefined" THEN JsNaN
  ELSE IF v.tag = "null" THEN JsNumber(<<>>, 0)
  ELSE v

\* a * n for a JavaScript value a and a small integer n >= 0
JsMulInt(a, n) ==
  LET x == ToNumber(a)
  IN  IF x.tag = "NaN" THEN JsNaN
      ELSE RoundToDouble(BigMulSmall(x.m, n), x.e, FALSE)

\* a + b for two JavaScript values used as numbers
JsAdd(a, b) ==
  LET x == ToNumber(a)
      y == ToNumber(b)
      lo == Min(x.e, y.e)
  IN  IF x.tag = "NaN" \/ y.tag = "NaN" THEN JsNaN
      ELSE RoundToDouble(BigAdd(BigShl(x.m, x.e - lo), BigShl(y.m, y.e - lo)), lo, FALSE)

DivisionGuardBits == 64

\* a / n for a JavaScript value a and a small integer n > 0
JsDivInt(a, n) ==
  LET x  == ToNumber(a)
      qr == BigDivSmall(BigShl(x.m, DivisionGuardBits), n)
  IN  IF x.tag = "NaN" THEN JsNaN
      ELSE RoundToDouble(qr.q, x.e - DivisionGuardBits, qr.r # 0)

(***************************************************************************)
(* Optional values.  A field that may be absent (undefined) holds <<>> when *)
(* absent and <<v>> when present, in the partial and in the normalized     *)
(* form alike, so that both forms have one shape.                          *)
(***************************************************************************)
None == <<>>

Some(v) == <<v>>

\* a ?? b
OrElse(opt, default) == IF opt = None THEN default ELSE opt[1]

(***************************************************************************)
(* src/src/shared/simulation.ts                                            *)
(***************************************************************************)
MAX_EVENT_LOG_ENTRIES == 500

\* array.slice(-n)
SliceLast(s, n) == IF Len(s) > n THEN SubSeq(s, Len(s) - n + 1, Len(s)) ELSE s

createInitialSimulationMetrics ==
  [totalPackets |-> 0, droppedPackets |-> 0,
   averageLatencyMs |-> FromInt(0), throughputMbps |-> 0]

Layer(id, order, visible) ==
  [id |-> id, order |-> Some(order), visible |-> Some(visible), locked |-> Some(FALSE)]

createDefaultTopologyLayers ==
  << Layer("layer-physical", 0, TRUE), Layer("layer-logical", 1, TRUE),
     Layer("layer-security", 2, FALSE), Layer("layer-wireless", 3, FALSE) >>

\* a variant of the sort that is not stable: layers of equal order change places
RECURSIVE InsertByOrderUnstable(_, _)
InsertByOrderUnstable(sorted, layer) ==
  IF sorted = <<>> THEN <<layer>>
  ELSE IF sorted[Len(sorted)].order[1] < layer.order[1] THEN Append(sorted, layer)
  ELSE Append(InsertByOrderUnstable(SubSeq(sorted, 1, Len(sorted) - 1), layer),
              sorted[Len(sorted)])

\* Array.prototype.sort with (a, b) => a.order - b.order: a stable sort
RECURSIVE InsertByOrder(_, _)
InsertByOrder(sorted, layer) ==
  IF sorted = <<>> THEN <<layer>>
  ELSE IF sorted[Len(sorted)].order[1] <= layer.order[1] THEN Append(sorted, layer)
  ELSE Append(InsertByOrder(SubSeq(sorted, 1, Len(sorted) - 1), layer), sorted[Len(sorted)])

RECURSIVE SortByOrder(_, _)
SortByOrder(layers, k) ==
  IF k = 0 THEN <<>> ELSE InsertByOrder(SortByOrder(layers, k - 1), layers[k])

cloneLayers(layers) ==
  LET mapped == [index \in 1..Len(layers) |->
                   [layers[index] EXCEPT
                      !.order   = Some(OrElse(layers[index].order, index - 1)),
                      !.visible = Some(OrElse(layers[index].visible, TRUE)),
                      !.locked  = Some(OrElse(layers[index].locked, FALSE))]]
  IN  SortByOrder(mapped, Len(mapped))

\* devices, links, annotations and views are copied element by element; an absent
\* collection is read as [] everywhere (x ?? []), so absent and empty are one value.
normalizeTopology(topology) ==
  [devices     |-> topology.devices,
   links       |-> topology.links,
   layers      |-> cloneLayers(IF Len(topology.layers) > 0 THEN topology.layers
                               ELSE createDefaultTopologyLayers),
   annotations |-> topology.annotations,
   views       |-> topology.views,
   metadata    |-> topology.metadata]

createInitialPlaybackState ==
  [isPlaying |-> FALSE, speedMultiplier |-> 1, loop |-> FALSE,
   cursorEventId |-> None, cursorTick |-> 0, bookmarks |-> <<>>]

\* a variant that keeps whatever speedMultiplier the playback state has
ensurePlaybackStateAnySpeed(playback) ==
  LET pb == OrElse(playback, [isPlaying |-> None, speedMultiplier |-> None, loop |-> None,
                              cursorEventId |-> None, cursorTick |-> None,
                              bookmarks |-> None])
  IN  [isPlaying       |-> OrElse(pb.isPlaying, FALSE),
       speedMultiplier |-> OrElse(pb.speedMultiplier, 1),
       loop            |-> OrElse(pb.loop, FALSE),
       cursorEventId   |-> pb.cursorEventId,
       cursorTick      |-> OrElse(pb.cursorTick, 0),
       bookmarks       |-> OrElse(pb.bookmarks, <<>>)]

\* playback?: a partial playback state (every field optional), itself optional
ensurePlaybackState(playback) ==
  LET pb == OrElse(playback, [isPlaying |-> None, speedMultiplier |-> None, loop |-> None,
                              cursorEventId |-> None, cursorTick |-> None,
                              bookmarks |-> None])
  IN  [isPlaying       |-> OrElse(pb.isPlaying, FALSE),
       speedMultiplier |-> IF pb.speedMultiplier # None /\ pb.speedMultiplier[1] > 0
                           THEN pb.speedMultiplier[1] ELSE 1,
       loop            |-> OrElse(pb.loop, FALSE),
       cursorEventId   |-> pb.cursorEventId,
       cursorTick      |-> OrElse(pb.cursorTick, 0),
       bookmarks       |-> OrElse(pb.bookmarks, <<>>)]

\* simulation?: a partial simulation state (every field optional), itself optional
ensureSimulationState(simulation) ==
  LET sim == OrElse(simulation, [status |-> None, currentTick |-> None, startedAt |-> None,
                                 stoppedAt |-> None, lastEventId |-> None,
                                 metrics |-> None])
  IN  [status      |-> OrElse(sim.status, "idle"),
       currentTick |-> OrElse(sim.currentTick, 0),
       startedAt   |-> sim.startedAt,
       stoppedAt   |-> sim.stoppedAt,
       lastEventId |-> sim.lastEventId,
       metrics     |-> OrElse(sim.metrics, createInitialSimulationMetrics)]

\* A complete SimulationState / SimulationPlaybackState read through the optional
\* type of the parameter (the identity in TypeScript).
PartialSimulation(simulation) ==
  Some([status      |-> Some(simulation.status),
        currentTick |-> Some(simulation.currentTick),
        startedAt   |-> simulation.startedAt,
        stoppedAt   |-> simulation.stoppedAt,
        lastEventId |-> simulation.lastEventId,
        metrics     |-> Some(simulation.metrics)])

PartialPlayback(playback) ==
  Some([isPlaying       |-> Some(playback.isPlaying),
        speedMultiplier |-> Some(playback.speedMultiplier),
        loop            |-> Some(playback.loop),
        cursorEventId   |-> playback.cursorEventId,
        cursorTick      |-> Some(playback.cursorTick),
        bookmarks       |-> Some(playback.bookmarks)])

LifecycleKinds ==
  {"simulation.started", "simulation.paused", "simulation.resumed", "simulation.stopped"}

EventKinds ==
  LifecycleKinds \cup {"simulation.tick", "simulation.metrics", "interface.state-changed",
                       "topology.updated", "packet.transmitted", "packet.dropped"}

\* a variant that sets the status of every interface of the matched device
SetInterfaceStatusOfDevice(devices, event) ==
  [d \in 1..Len(devices) |->
     IF Some(devices[d].id) = event.deviceId
     THEN [devices[d] EXCEPT !.interfaces =
             [i \in 1..Len(devices[d].interfaces) |->
                [devices[d].interfaces[i] EXCEPT !.status = event.status[1]]]]
     ELSE devices[d]]

\* case 'interface.state-changed'
SetInterfaceStatus(devices, event) ==
  [d \in 1..Len(devices) |->
     IF Some(devices[d].id) = event.deviceId
     THEN [devices[d] EXCEPT !.interfaces =
             [i \in 1..Len(devices[d].interfaces) |->
                IF Some(devices[d].interfaces[i].id) = event.interfaceId
                THEN [devices[d].interfaces[i] EXCEPT !.status = event.status[1]]
                ELSE devices[d].interfaces[i]]]
     ELSE devices[d]]

\* a variant of the packet.transmitted case that builds the metrics anew instead of
\* spreading the previous ones
TransmittedMetricsFresh(metrics, event) ==
  [createInitialSimulationMetrics EXCEPT
     !.totalPackets     = metrics.totalPackets + 1,
     !.averageLatencyMs = event.latencyMs]

\* a variant of the packet.transmitted case that weighs the previous average with the
\* new total
TransmittedMetricsNewWeight(metrics, event) ==
  LET previousTotal == metrics.totalPackets
      nextTotal     == previousTotal + 1
      nextAverage   ==
        IF previousTotal = 0 THEN event.latencyMs
        ELSE JsDivInt(JsAdd(JsMulInt(metrics.averageLatencyMs, nextTotal),
                            event.latencyMs),
                      nextTotal)
  IN  [metrics EXCEPT !.totalPackets = nextTotal, !.averageLatencyMs = nextAverage]

\* case 'packet.transmitted'
TransmittedMetrics(metrics, event) ==
  LET previousTotal == metrics.totalPackets
      nextTotal     == previousTotal + 1
      nextAverage   ==
        IF previousTotal = 0 THEN event.latencyMs
        ELSE JsDivInt(JsAdd(JsMulInt(metrics.averageLatencyMs, previousTotal),
                            event.latencyMs),
                      nextTotal)
  IN  [metrics EXCEPT !.totalPackets = nextTotal, !.averageLatencyMs = nextAverage]

\* a variant of the packet.dropped case that counts the packet as handled too
DroppedMetricsCountsTotal(metrics) ==
  [metrics EXCEPT !.droppedPackets = metrics.droppedPackets + 1,
                  !.totalPackets   = metrics.totalPackets + 1]

\* case 'packet.dropped'
DroppedMetrics(metrics) == [metrics EXCEPT !.droppedPackets = metrics.droppedPackets + 1]

\* a variant of a reducer that has no case for simulation.metrics
applyThrowsOnMetrics(event) == event.type \notin EventKinds \ {"simulation.metrics"}

\* default: assertNever(event) throws
applyThrows(event) == event.type \notin EventKinds

\* a variant of the trim that keeps the oldest entries: slice(0, MAX) for slice(-MAX)
TrimEventLogKeepsOldest(eventLog) ==
  IF Len(eventLog) > MAX_EVENT_LOG_ENTRIES
  THEN SubSeq(eventLog, 1, MAX_EVENT_LOG_ENTRIES) ELSE eventLog

\* a variant without the trim
TrimEventLogNever(eventLog) == eventLog

\* a variant of the trim that is off by one: length >= MAX for length > MAX
TrimEventLogOffByOne(eventLog) ==
  IF Len(eventLog) >= MAX_EVENT_LOG_ENTRIES
  THEN SliceLast(eventLog, MAX_EVENT_LOG_ENTRIES - 1) ELSE eventLog

\* const trimmedEventLog = eventLog.length > MAX ? eventLog.slice(-MAX) : eventLog
TrimEventLog(eventLog) ==
  IF Len(eventLog) > MAX_EVENT_LOG_ENTRIES
  THEN SliceLast(eventLog, MAX_EVENT_LOG_ENTRIES) ELSE eventLog

\* a variant that spreads the simulation state without recording the event's id
StampedSimulationKeepsId(simulation, event) == simulation

\* a variant that does not carry startedAt over from the previous state
StampedSimulationDropsStart(simulation, event) ==
  [simulation EXCEPT !.lastEventId = Some(event.id), !.startedAt = None]

\* let updatedSimulation = { ...simulation, lastEventId: event.id }
StampedSimulation(simulation, event) == [simulation EXCEPT !.lastEventId = Some(event.id)]

\* a variant of the simulation.tick case that never moves the tick backwards
TickedSimulationMonotonic(simulation, event) ==
  [simulation EXCEPT !.currentTick = IF event.tick[1] > @ THEN event.tick[1] ELSE @]

\* case 'simulation.tick': { ...updatedSimulation, currentTick: event.tick }
TickedSimulation(simulation, event) == [simulation EXCEPT !.currentTick = event.tick[1]]

\* a variant in which simulation.started leaves the cursor tick where it is
UpdatedPlaybackKeepsTick(playback, event) ==
  LET pb0 == [playback EXCEPT !.cursorEventId = Some(event.id)]
  IN  CASE event.type \in {"simulation.started", "simulation.resumed"} ->
             [pb0 EXCEPT !.isPlaying = TRUE]
        [] event.type \in {"simulation.paused", "simulation.stopped"} ->
             [pb0 EXCEPT !.isPlaying = FALSE]
        [] event.type = "simulation.tick" -> [pb0 EXCEPT !.cursorTick = event.tick[1]]
        [] OTHER -> pb0

\* let updatedPlayback = { ...playback, cursorEventId: event.id } and the playback
\* assignments of the cases of the switch
UpdatedPlayback(playback, event) ==
  LET pb0 == [playback EXCEPT !.cursorEventId = Some(event.id)]
  IN  CASE event.type = "simulation.started" ->
             [pb0 EXCEPT !.isPlaying = TRUE, !.cursorTick = 0]
        [] event.type = "simulation.resumed" -> [pb0 EXCEPT !.isPlaying = TRUE]
        [] event.type \in {"simulation.paused", "simulation.stopped"} ->
             [pb0 EXCEPT !.isPlaying = FALSE]
        [] event.type = "simulation.tick" -> [pb0 EXCEPT !.cursorTick = event.tick[1]]
        [] OTHER -> pb0

applySimulationEvent(project, event) ==
  LET simulation == ensureSimulationState(PartialSimulation(project.simulation))
      playback   == ensurePlaybackState(PartialPlayback(project.playback))
      sim0       == StampedSimulation(simulation, event)
      topology0  == normalizeTopology(project.topology)
      updatedSimulation ==
        CASE event.type = "simulation.started" ->
               [sim0 EXCEPT !.status = event.status[1],
                            !.startedAt = Some(event.timestamp),
                            !.currentTick = 0]
          [] event.type \in {"simulation.resumed", "simulation.paused"} ->
               [sim0 EXCEPT !.status = event.status[1]]
          [] event.type = "simulation.stopped" ->
               [sim0 EXCEPT !.status = event.status[1],
                            !.stoppedAt = Some(event.timestamp)]
          [] event.type = "simulation.tick" -> TickedSimulation(sim0, event)
          [] event.type = "simulation.metrics" ->
               [sim0 EXCEPT !.metrics = event.metrics[1]]
          [] event.type = "packet.transmitted" ->
               [sim0 EXCEPT !.metrics = TransmittedMetrics(sim0.metrics, event)]
          [] event.type = "packet.dropped" ->
               [sim0 EXCEPT !.metrics = DroppedMetrics(sim0.metrics)]
          [] event.type \in {"interface.state-changed", "topology.updated"} -> sim0
      updatedPlayback == UpdatedPlayback(playback, event)
      topology ==
        CASE event.type = "interface.state-changed" ->
               [topology0 EXCEPT !.devices = SetInterfaceStatus(topology0.devices, event)]
          [] event.type = "topology.updated" -> normalizeTopology(event.topology[1])
          [] OTHER -> topology0
  IN  [project EXCEPT
         !.topology   = topology,
         !.simulation = updatedSimulation,
         !.playback   = updatedPlayback,
         !.updatedAt  = event.timestamp,
         !.eventLog   = TrimEventLog(Append(project.eventLog, event))]

\* A normalized Project read through a type whose simulation, playback and eventLog
\* may be absent (the identity in TypeScript).
PartialProject(project) ==
  [project EXCEPT !.simulation = PartialSimulation(project.simulation),
                  !.playback   = PartialPlayback(project.playback),
                  !.eventLog   = Some(project.eventLog)]

\* project.eventLog is None when the input's eventLog is not an array.
\* Scenarios are always the empty list in the requests modelled here.
normalizeProject(project) ==
  [project EXCEPT
     !.topology   = normalizeTopology(project.topology),
     !.simulation = ensureSimulationState(project.simulation),
     !.playback   = ensurePlaybackState(project.playback),
     !.eventLog   = SliceLast(OrElse(project.eventLog, <<>>), MAX_EVENT_LOG_ENTRIES)]

(***************************************************************************)
(* A keyed collection that keeps insertion order (Map, and an object with  *)
(* string keys): a sequence of projects with pairwise distinct ids.        *)
(***************************************************************************)
Ids(projects) == {projects[i].id : i \in 1..Len(projects)}

Has(projects, id) == \E i \in 1..Len(projects) : projects[i].id = id

Get(projects, id) == projects[CHOOSE i \in 1..Len(projects) : projects[i].id = id]

\* map.set(id, project) / { ...record, [id]: project }
Put(projects, project) ==
  IF Has(projects, project.id)
  THEN [i \in 1..Len(projects) |->
          IF projects[i].id = project.id THEN project ELSE projects[i]]
  ELSE Append(projects, project)

RECURSIVE Remove(_, _)
Remove(projects, id) ==
  IF projects = <<>> THEN <<>>
  ELSE IF projects[1].id = id THEN Tail(projects)
  ELSE <<projects[1]>> \o Remove(Tail(projects), id)

\* the keyed collection as a set of projects (order forgotten)
AsMap(projects) == {projects[i] : i \in 1..Len(projects)}

RECURSIVE normalizeProjectsFrom(_, _)
normalizeProjectsFrom(projects, k) ==
  IF k = 0 THEN <<>>
  ELSE Put(normalizeProjectsFrom(projects, k - 1), normalizeProject(projects[k]))

normalizeProjects(projects) == normalizeProjectsFrom(projects, Len(projects))

(***************************************************************************)
(* src/src/backend/projectStore.ts                                         *)
(***************************************************************************)
EmptyTopology ==
  [devices |-> <<>>, links |-> <<>>, layers |-> <<>>, annotations |-> <<>>,
   views |-> <<>>, metadata |-> None]

\* id is the value of randomUUID(), now the value of new Date().toISOString()
createInitialProject(payload, id, now) ==
  normalizeProject(
    [id          |-> id,
     name        |-> payload.name[1],
     description |-> payload.description,
     topology    |-> OrElse(payload.topology, EmptyTopology),
     simulation  |-> PartialSimulation(ensureSimulationState(
                       Some([status |-> Some("idle"), currentTick |-> Some(0),
                             startedAt |-> None, stoppedAt |-> None, lastEventId |-> None,
                             metrics |-> Some(createInitialSimulationMetrics)]))),
     playback    |-> PartialPlayback(createInitialPlaybackState),
     scenarios   |-> OrElse(payload.scenarios, <<>>),
     eventLog    |-> Some(<<>>),
     createdAt   |-> now,
     updatedAt   |-> now,
     tags        |-> OrElse(payload.tags, <<>>)])

\* InMemoryProjectStore.list
StoreList(projects) ==
  [i \in 1..Len(projects) |-> normalizeProject(PartialProject(projects[i]))]

\* InMemoryProjectStore.get
StoreGet(projects, projectId) ==
  IF Has(projects, projectId)
  THEN Some(normalizeProject(PartialProject(Get(projects, projectId))))
  ELSE None

\* a variant of create that gives the new project the id of the first stored one
StoreCreateReusesId(projects, payload, id, now) ==
  LET project == createInitialProject(payload, IF projects = <<>> THEN id ELSE projects[1].id,
                                      now)
  IN  [projects |-> Put(projects, project), result |-> Some(project)]

\* InMemoryProjectStore.create: the new map and the project returned
StoreCreate(projects, payload, id, now) ==
  LET project == createInitialProject(payload, id, now)
  IN  [projects |-> Put(projects, project), result |-> Some(project)]

\* a variant of the merge that starts the metrics afresh when the patch has none
MergeSimulationFreshMetrics(existing, patch) ==
  [status      |-> IF patch.status # None THEN patch.status ELSE Some(existing.status),
   currentTick |-> IF patch.currentTick # None THEN patch.currentTick
                   ELSE Some(existing.currentTick),
   startedAt   |-> IF patch.startedAt # None THEN patch.startedAt ELSE existing.startedAt,
   stoppedAt   |-> IF patch.stoppedAt # None THEN patch.stoppedAt ELSE existing.stoppedAt,
   lastEventId |-> IF patch.lastEventId # None THEN patch.lastEventId
                   ELSE existing.lastEventId,
   metrics     |-> patch.metrics]

\* { ...existing.simulation, ...payload.simulation, metrics: ... ?? ... }
MergeSimulation(existing, patch) ==
  [status      |-> IF patch.status # None THEN patch.status ELSE Some(existing.status),
   currentTick |-> IF patch.currentTick # None THEN patch.currentTick
                   ELSE Some(existing.currentTick),
   startedAt   |-> IF patch.startedAt # None THEN patch.startedAt ELSE existing.startedAt,
   stoppedAt   |-> IF patch.stoppedAt # None THEN patch.stoppedAt ELSE existing.stoppedAt,
   lastEventId |-> IF patch.lastEventId # None THEN patch.lastEventId
                   ELSE existing.lastEventId,
   metrics     |-> Some(OrElse(patch.metrics, existing.metrics))]

\* { ...(existing.playback ?? createInitialPlaybackState()), ...payload.playback }
MergePlayback(existing, patch) ==
  [isPlaying       |-> IF patch.isPlaying # None THEN patch.isPlaying
                       ELSE Some(existing.isPlaying),
   speedMultiplier |-> IF patch.speedMultiplier # None THEN patch.speedMultiplier
                       ELSE Some(existing.speedMultiplier),
   loop            |-> IF patch.loop # None THEN patch.loop ELSE Some(existing.loop),
   cursorEventId   |-> IF patch.cursorEventId # None THEN patch.cursorEventId
                       ELSE existing.cursorEventId,
   cursorTick      |-> IF patch.cursorTick # None THEN patch.cursorTick
                       ELSE Some(existing.cursorTick),
   bookmarks       |-> IF patch.bookmarks # None THEN patch.bookmarks
                       ELSE Some(existing.bookmarks)]

\* the project InMemoryProjectStore.update stores for an existing project
UpdatedProject(existing, payload, now) ==
  normalizeProject(
    [id          |-> existing.id,
     name        |-> OrElse(payload.name, existing.name),
     description |-> IF payload.description # None THEN payload.description
                     ELSE existing.description,
     topology    |-> OrElse(payload.topology, existing.topology),
     simulation  |-> IF payload.simulation # None
                     THEN PartialSimulation(ensureSimulationState(
                            Some(MergeSimulation(existing.simulation, payload.simulation[1]))))
                     ELSE PartialSimulation(existing.simulation),
     playback    |-> IF payload.playback # None
                     THEN PartialPlayback(ensurePlaybackState(
                            Some(MergePlayback(existing.playback, payload.playback[1]))))
                     ELSE PartialPlayback(existing.playback),
     scenarios   |-> OrElse(payload.scenarios, existing.scenarios),
     eventLog    |-> Some(existing.eventLog),
     createdAt   |-> existing.createdAt,
     updatedAt   |-> now,
     tags        |-> OrElse(payload.tags, existing.tags)])

\* a variant of update that creates the project when the id is not in the map
StoreUpdateUpserts(projects, projectId, payload, now) ==
  LET existing == IF Has(projects, projectId) THEN Get(projects, projectId)
                  ELSE createInitialProject(
                         [name |-> Some("untitled"), description |-> None,
                          topology |-> None, tags |-> None, scenarios |-> None],
                         projectId, now)
      updated  == UpdatedProject(existing, payload, now)
  IN  [projects |-> Put(projects, updated), result |-> Some(updated)]

\* InMemoryProjectStore.update
StoreUpdate(projects, projectId, payload, now) ==
  IF ~Has(projects, projectId) THEN [projects |-> projects, result |-> None]
  ELSE LET updated == UpdatedProject(Get(projects, projectId), payload, now)
       IN  [projects |-> Put(projects, updated), result |-> Some(updated)]

\* a variant of delete that empties the map
StoreDeleteClears(projects, projectId) ==
  [projects |-> IF Has(projects, projectId) THEN <<>> ELSE projects,
   result   |-> Has(projects, projectId)]

\* a variant of delete that reports the removal without making it
StoreDeleteKeeps(projects, projectId) ==
  [projects |-> projects, result |-> Has(projects, projectId)]

\* InMemoryProjectStore.delete
StoreDelete(projects, projectId) ==
  [projects |-> Remove(projects, projectId), result |-> Has(projects, projectId)]

\* a variant of recordEvent that returns the new project without storing it
StoreRecordEventNoSet(projects, projectId, event) ==
  IF ~Has(projects, projectId) THEN [projects |-> projects, result |-> None]
  ELSE [projects |-> projects,
        result   |-> Some(applySimulationEvent(Get(projects, projectId), event))]

\* InMemoryProjectStore.recordEvent
\* a variant that records the event on a new project when the id is not stored
StoreRecordEventRevives(projects, projectId, event) ==
  LET existing == IF Has(projects, projectId) THEN Get(projects, projectId)
                  ELSE createInitialProject(
                         [name |-> Some("lab"), description |-> None,
                          topology |-> Some(EmptyTopology), tags |-> None,
                          scenarios |-> None],
                         projectId, event.timestamp)
      project  == applySimulationEvent(existing, event)
  IN  [projects |-> Put(projects, project), result |-> Some(project)]

StoreRecordEvent(projects, projectId, event) ==
  IF ~Has(projects, projectId) THEN [projects |-> projects, result |-> None]
  ELSE LET project == applySimulationEvent(Get(projects, projectId), event)
       IN  [projects |-> Put(projects, project), result |-> Some(project)]

\* InMemoryProjectStore.replaceAll
StoreReplaceAll(input) == normalizeProjects(input)

(***************************************************************************)
(* Request bodies.  A body is the JSON object a client posts; every field  *)
(* of it may be absent.                                                    *)
(***************************************************************************)
Body(type) ==
  [type |-> type, id |-> None, projectId |-> None, timestamp |-> None,
   status |-> None, tick |-> None, metrics |-> None, packet |-> None, linkId |-> None,
   latencyMs |-> JsUndefined, reason |-> None, deviceId |-> None, interfaceId |-> None,
   topology |-> None]

\* express.json({ limit: '2mb' }): the largest request body, in MB
BodyLimit == 2

LabTopology ==
  [devices     |-> << [id |-> "d1", interfaces |-> << [id |-> "i1", status |-> "up"] >>] >>,
   links       |-> <<>>,
   layers      |-> << [id |-> "layer-core", order |-> Some(1), visible |-> None,
                       locked |-> None],
                      [id |-> "layer-edge", order |-> Some(0), visible |-> Some(FALSE),
                       locked |-> None] >>,
   annotations |-> <<>>,
   views       |-> <<>>,
   metadata    |-> None]

ReportedMetrics ==
  [totalPackets |-> 1, droppedPackets |-> 0, averageLatencyMs |-> FromInt(4),
   throughputMbps |-> 9]

MetricsBodies ==
  { [Body(Some("simulation.metrics")) EXCEPT !.metrics = Some(ReportedMetrics)] }

TransmittedBody(latencyMs) ==
  [Body(Some("packet.transmitted")) EXCEPT
     !.packet = Some(1), !.linkId = Some("l1"), !.latencyMs = latencyMs]

DroppedBodies ==
  { [Body(Some("packet.dropped")) EXCEPT !.packet = Some(1), !.reason = Some("ttl")] }

\* a topology whose metadata object fills the body limit of the JSON parser; the
\* model keeps of a metadata object its size in MB
BulkyTopology == [LabTopology EXCEPT !.metadata = Some(BodyLimit)]

TopologyBodies ==
  { [Body(Some("topology.updated")) EXCEPT !.topology = Some(LabTopology)] }

\* a variant that keeps the projectId of the body when it has one
hydratedEventOfBody(incoming, projectId, uuid, now) ==
  [incoming EXCEPT !.type      = incoming.type[1],
                   !.id        = OrElse(incoming.id, uuid),
                   !.projectId = OrElse(incoming.projectId, projectId),
                   !.timestamp = OrElse(incoming.timestamp, now)]

\* const hydratedEvent = { ...incoming, id: incoming.id ?? randomUUID(), projectId,
\*                         timestamp: incoming.timestamp ?? new Date().toISOString() }
hydratedEvent(incoming, projectId, uuid, now) ==
  [incoming EXCEPT !.type      = incoming.type[1],
                   !.id        = OrElse(incoming.id, uuid),
                   !.projectId = projectId,
                   !.timestamp = OrElse(incoming.timestamp, now)]

CreatePayload(name, topology) ==
  [name |-> name, description |-> None, topology |-> topology, tags |-> None,
   scenarios |-> None]

UpdatePayload(name, topology, simulation, playback) ==
  [name |-> name, description |-> None, topology |-> topology,
   simulation |-> simulation, playback |-> playback, scenarios |-> None, tags |-> None]

SimulationPatch(status, metrics) ==
  [status |-> status, currentTick |-> None, startedAt |-> None, stoppedAt |-> None,
   lastEventId |-> None, metrics |-> metrics]

PlaybackPatch(speedMultiplier) ==
  [isPlaying |-> None, speedMultiplier |-> speedMultiplier, loop |-> None,
   cursorEventId |-> None, cursorTick |-> None, bookmarks |-> None]

UpdatePayloads ==
  { UpdatePayload(Some("edge"), None, None, None),
    UpdatePayload(None, Some(LabTopology), None, None),
    UpdatePayload(None, None, Some(SimulationPatch(Some("paused"), None)), None),
    UpdatePayload(None, None, Some(SimulationPatch(Some("warp"), Some(ReportedMetrics))),
                  None),
    UpdatePayload(None, None,
                  Some([SimulationPatch(None, None) EXCEPT !.lastEventId = Some(77)]), None),
    UpdatePayload(None, None, None, Some(PlaybackPatch(Some(0)))),
    UpdatePayload(None, None, None, Some(PlaybackPatch(Some(0 - 2)))),
    UpdatePayload(None, None, None, Some(PlaybackPatch(Some(3)))) }

(***************************************************************************)
(* The REST boundary (server code in src/docs/data-contracts.md).          *)
(***************************************************************************)
\* payload is the parsed request body, None when there is none
validateProjectCreate(payload) ==
  /\ payload # None
  /\ payload[1].name # None
  /\ payload[1].name[1] \notin {"", " "}   \* name.trim() is empty
  /\ payload[1].topology # None

\* a variant of the check that passes whatever the field holds
TruthyStringAlways(field) == TRUE

\* a string field that is present and not empty
TruthyString(field) == field # None /\ field[1] # ""

\* the message validateSimulationEvent returns, None for null
validateSimulationEvent(event) ==
  CASE event.type \in LifecycleKinds ->
         IF TruthyString(event.status) THEN None
         ELSE Some("status field is required for simulation lifecycle events")
    [] event.type = "simulation.tick" ->
         IF event.tick # None THEN None
         ELSE Some("tick field is required for simulation.tick events")
    [] event.type = "simulation.metrics" ->
         IF event.metrics # None THEN None
         ELSE Some("metrics field is required for simulation.metrics events")
    [] event.type = "packet.transmitted" ->
         IF event.packet = None
         THEN Some("packet field is required for packet.transmitted events")
         ELSE IF ~TruthyString(event.linkId)
         THEN Some("linkId field is required for packet.transmitted events")
         ELSE None
    [] event.type = "packet.dropped" ->
         IF event.packet = None
         THEN Some("packet field is required for packet.dropped events")
         ELSE IF ~TruthyString(event.reason)
         THEN Some("reason field is required for packet.dropped events")
         ELSE None
    [] event.type = "interface.state-changed" ->
         IF ~TruthyString(event.deviceId) \/ ~TruthyString(event.interfaceId)
         THEN Some("deviceId and interfaceId are required for interface.state-changed events")
         ELSE IF TruthyString(event.status) THEN None
         ELSE Some("status field is required for interface.state-changed events")
    [] event.type = "topology.updated" ->
         IF event.topology # None THEN None
         ELSE Some("topology field is required for topology.updated events")
    [] OTHER -> Some("Unsupported simulation event type")

(***************************************************************************)
(* JSON.  JSON.stringify leaves out a property whose value is undefined    *)
(* (it reads back as undefined) and writes NaN as null.                    *)
(***************************************************************************)
JsonNumber(x) == IF x.tag = "NaN" THEN [tag |-> "null", m |-> <<>>, e |-> 0] ELSE x

JsonMetrics(metrics) == [metrics EXCEPT !.averageLatencyMs = JsonNumber(@)]

JsonEvent(event) ==
  [event EXCEPT !.latencyMs = JsonNumber(@),
                !.metrics   = IF @ = None THEN None ELSE Some(JsonMetrics(@[1]))]

JsonProject(project) ==
  [project EXCEPT !.simulation.metrics = JsonMetrics(@),
                  !.eventLog = [i \in 1..Len(@) |-> JsonEvent(@[i])]]

\* a message of the socket: the payload is projects, project, projectId, event,
\* timestamp or message
Message(type) ==
  [type |-> type, projects |-> <<>>, project |-> None, projectId |-> None, event |-> None,
   timestamp |-> None, message |-> None]

\* the length of JSON.stringify(message) in MB, rounded down: what counts are the
\* metadata objects of the topologies in it, those of projects (second index 0) and
\* those kept in events
JsonLength(message) ==
  LET carried == message.projects
                   \o (IF message.project = None THEN <<>> ELSE message.project)
      lengths == {0} \cup { Len(carried[i].eventLog) : i \in 1..Len(carried) }
      longest == CHOOSE n \in lengths : \A m \in lengths : m <= n
      bulky   == { pair \in (1..Len(carried)) \X (0..longest) :
                     IF pair[2] = 0 THEN carried[pair[1]].topology.metadata # None
                     ELSE /\ pair[2] <= Len(carried[pair[1]].eventLog)
                          /\ carried[pair[1]].eventLog[pair[2]].topology # None
                          /\ carried[pair[1]].eventLog[pair[2]].topology[1].metadata # None }
      alone   == IF message.event # None /\ message.event[1].topology # None
                      /\ message.event[1].topology[1].metadata # None
                 THEN 1 ELSE 0
  IN  BodyLimit * (Cardinality(bulky) + alone)

\* JSON.stringify throws RangeError (Invalid string length) when the text would be
\* longer than the engine's longest string, 2^29 - 24 characters, 512 MB
StringifyThrows(message) == JsonLength(message) > 512

\* JSON.parse(JSON.stringify(message))
JsonMessage(message) ==
  [message EXCEPT
     !.projects = [i \in 1..Len(@) |-> JsonProject(@[i])],
     !.project  = IF @ = None THEN None ELSE Some(JsonProject(@[1])),
     !.event    = IF @ = None THEN None ELSE Some(JsonEvent(@[1]))]

(***************************************************************************)
(* The replica store useNetworkStore (src/unnamed/part_004): its map of    *)
(* projects and its global eventLog.                                       *)
(***************************************************************************)
ensureLayers(layers) ==
  IF Len(layers) > 0
  THEN [index \in 1..Len(layers) |->
          [layers[index] EXCEPT
             !.order   = Some(OrElse(layers[index].order, index - 1)),
             !.visible = Some(OrElse(layers[index].visible, TRUE)),
             !.locked  = Some(OrElse(layers[index].locked, FALSE))]]
  ELSE createDefaultTopologyLayers

trimEvents(events) ==
  IF Len(events) > MAX_EVENT_LOG_ENTRIES THEN SliceLast(events, MAX_EVENT_LOG_ENTRIES)
  ELSE events

mapProjectsWithDefaults(projects) ==
  [i \in 1..Len(projects) |->
     [projects[i] EXCEPT
        !.topology.layers = ensureLayers(@),
        !.playback = ensurePlaybackState(PartialPlayback(@))]]

\* events.filter(keep)
RECURSIVE FilterEvents(_, _, _, _)
FilterEvents(events, ids, lo, hi) ==
  IF lo > hi THEN <<>>
  ELSE IF lo = hi
       THEN IF events[lo].projectId \in ids THEN <<events[lo]>> ELSE <<>>
  ELSE FilterEvents(events, ids, lo, (lo + hi) \div 2)
         \o FilterEvents(events, ids, ((lo + hi) \div 2) + 1, hi)

EmptyReplica == [projects |-> <<>>, eventLog |-> <<>>]

\* projects is the parsed payload: a list of possibly-partial projects
setProjects(state, projects) ==
  LET normalized == mapProjectsWithDefaults(normalizeProjects(projects))
  IN  [projects |-> normalized,
       eventLog |-> trimEvents(FilterEvents(state.eventLog, Ids(normalized),
                                            1, Len(state.eventLog)))]

upsertProject(state, project) ==
  [state EXCEPT !.projects = mapProjectsWithDefaults(Put(@, normalizeProject(project)))]

removeProject(state, projectId) ==
  IF ~Has(state.projects, projectId) THEN state
  ELSE [projects |-> Remove(state.projects, projectId),
        eventLog |-> FilterEvents(state.eventLog,
                                  { state.eventLog[k].projectId :
                                      k \in 1..Len(state.eventLog) } \ {projectId},
                                  1, Len(state.eventLog))]

\* a variant that appends the event to the global log whether or not the replica
\* holds the event's project
recordSimulationEventAlways(state, event) ==
  [projects |-> IF Has(state.projects, event.projectId)
                THEN Put(state.projects,
                         applySimulationEvent(Get(state.projects, event.projectId), event))
                ELSE state.projects,
   eventLog |-> trimEvents(Append(state.eventLog, event))]

recordSimulationEvent(state, event) ==
  IF ~Has(state.projects, event.projectId) THEN state
  ELSE [projects |-> Put(state.projects,
                         applySimulationEvent(Get(state.projects, event.projectId), event)),
        eventLog |-> trimEvents(Append(state.eventLog, event))]

\* reset: () => set((state) => ({ projects: {}, eventLog: [], ... }))
reset(state) == EmptyReplica

\* The socket client: what the replica does with a message it receives.
OnMessage(state, message) ==
  CASE message.type = "projects.initial" ->
         setProjects(state, [i \in 1..Len(message.projects) |->
                               PartialProject(message.projects[i])])
    [] message.type \in {"project.created", "project.updated"} ->
         upsertProject(state, PartialProject(message.project[1]))
    [] message.type = "project.deleted" -> removeProject(state, message.projectId[1])
    [] message.type = "simulation.event" -> recordSimulationEvent(state, message.event[1])
    [] OTHER -> state

(***************************************************************************)
(* State.                                                                  *)
(*   aggregate  one project to which the reducer is applied event by event *)
(*   fresh      that project as createInitialProject returned it           *)
(*   applied    every event applied to it so far, oldest first             *)
(*   seeded     how many of them had been applied in the initial state     *)
(*   passes     a possibly-partial project followed by the results of      *)
(*              normalizeProject applied to it once and twice              *)
(*   projects   the store's map #projects                                  *)
(*   uuid       the next value randomUUID() returns                        *)
(*   clock      the time new Date() reads                                  *)
(*   calls      how many store methods a direct caller has called          *)
(*   lastCall   the store method it called last, with its arguments        *)
(*   pending    per writer, the request it has sent and not had answered   *)
(*   done       per writer, the last response it got                       *)
(*   sock       per subscriber, the state of its socket                    *)
(*   wire       per subscriber, the messages sent to it and not yet read   *)
(*   replica    per subscriber, its useNetworkStore state                  *)
(*   mirror     a second store, on which a pair of calls is made in the    *)
(*              opposite order                                             *)
(*   plan       the pair of store calls made on projects and on mirror     *)
(*   sent       how many requests have been sent                           *)
(*   connects   how many connections have been opened                      *)
(*   overlap    when both writers have an event for one project pending,   *)
(*              that project as stored when the second was sent            *)
(*   published  every message handed to broadcast(), in the order of the   *)
(*              calls                                                      *)
(*   joined     per subscriber, how many messages had been published when  *)
(*              its connection was opened                                  *)
(*   received   per subscriber, the messages it has read on its            *)
(*              connection, in the order it read them                      *)
(*   frames     per subscriber, how many frames it has sent to the server  *)
(*              and those of them the server has not handled yet           *)
(***************************************************************************)
VARIABLES aggregate, fresh, applied, seeded, passes, projects, uuid, clock, calls, lastCall,
          mirror, plan,
          pending, done, sock, wire, replica, sent, connects, overlap,
          published, joined, received, frames

reducerVars == <<aggregate, fresh, applied, seeded, passes>>

storeVars == <<projects, uuid, clock, calls, lastCall>>

hubVars == <<pending, done, sock, wire, replica, sent, connects, overlap,
             published, joined, received, frames>>

orderVars == <<mirror, plan>>

vars == <<reducerVars, storeVars, orderVars, hubVars>>

Writers == {"w1", "w2"}

Subscribers == {"s1"}

NoResponse == [code |-> 0, event |-> None, op |-> "none"]

\* no writer, no subscriber
HubIdle ==
  /\ pending = [w \in Writers |-> None]
  /\ done = [w \in Writers |-> NoResponse]
  /\ sock = [s \in Subscribers |-> "closed"]
  /\ wire = [s \in Subscribers |-> <<>>]
  /\ replica = [s \in Subscribers |-> EmptyReplica]
  /\ sent = 0
  /\ connects = 0
  /\ overlap = None
  /\ published = <<>>
  /\ joined = [s \in Subscribers |-> 0]
  /\ received = [s \in Subscribers |-> <<>>]
  /\ frames = [s \in Subscribers |-> [sent |-> 0, handled |-> 0, queue |-> <<>>]]

MaxApplied == 3

MaxTransmitted == 8

\* events[lo..hi] applied to project one by one, in order (evaluated by halves,
\* which keeps the evaluation shallow; the reducer never changes the id)
RECURSIVE ApplyRange(_, _, _, _)
ApplyRange(project, events, lo, hi) ==
  IF lo > hi THEN project
  ELSE IF lo = hi THEN applySimulationEvent(project, events[lo])
  ELSE LET half == ApplyRange(project, events, lo, (lo + hi) \div 2)
       IN  IF half.id = project.id
           THEN ApplyRange(half, events, ((lo + hi) \div 2) + 1, hi)
           ELSE half

ApplyAll(project, events) == ApplyRange(project, events, 1, Len(events))

\* the k-th of the events a long-running simulation has already recorded
SeedEvent(k, projectId) ==
  hydratedEvent([Body(Some("packet.dropped")) EXCEPT !.packet = Some(1),
                                                     !.reason = Some("ttl")],
                projectId, k + 1, k + 1)

SeedLengths == {0, MAX_EVENT_LOG_ENTRIES - 1}

NoCall ==
  [op |-> "none", projectId |-> None, event |-> None, update |-> None, found |-> FALSE]

\* no pair of calls is planned
OrderIdle ==
  /\ mirror = <<>>
  /\ plan = <<>>

\* the store before any request
StoreIdle ==
  /\ projects = <<>>
  /\ uuid = 1
  /\ clock = 1
  /\ calls = 0
  /\ lastCall = NoCall

InitReducer ==
  /\ StoreIdle
  /\ HubIdle
  /\ OrderIdle
  /\ \E topology \in {EmptyTopology, LabTopology} :
       fresh = createInitialProject(CreatePayload(Some("lab"), Some(topology)), 1, 1)
  /\ seeded \in SeedLengths
  /\ applied = [k \in 1..seeded |-> SeedEvent(k, fresh.id)]
  /\ aggregate = ApplyAll(fresh, applied)
  /\ passes = <<>>

\* one call applySimulationEvent(aggregate, event)
Reduce(body, limit) ==
  /\ Len(applied) - seeded < limit
  /\ LET event == hydratedEvent(body, aggregate.id, Len(applied) + 2, Len(applied) + 2)
     IN  /\ aggregate' = applySimulationEvent(aggregate, event)
         /\ applied' = Append(applied, event)
  /\ UNCHANGED <<fresh, seeded, passes, storeVars, orderVars, hubVars>>

ApplyLifecycle ==
  \E kind \in LifecycleKinds, status \in {"running", "paused", "stopped", "warp"} :
    /\ <<kind, status>> \in {<<"simulation.started", "running">>,
                             <<"simulation.paused", "paused">>,
                             <<"simulation.resumed", "running">>,
                             <<"simulation.stopped", "stopped">>,
                             <<"simulation.started", "warp">>}
    /\ Reduce([Body(Some(kind)) EXCEPT !.status = Some(status)], MaxApplied)

ApplyTick ==
  \E k \in {2, 5} : Reduce([Body(Some("simulation.tick")) EXCEPT !.tick = Some(k)], MaxApplied)

ApplyMetrics == \E body \in MetricsBodies : Reduce(body, MaxApplied)

ApplyTransmitted ==
  \E l \in {FromInt(10), FromInt(30), JsUndefined} : Reduce(TransmittedBody(l), MaxApplied)

ApplyDropped == \E body \in DroppedBodies : Reduce(body, MaxApplied)

ApplyInterfaceStateChanged ==
  \E d \in {<<"d1", "i1">>, <<"d9", "i1">>, <<"d1", "i9">>} :
    Reduce([Body(Some("interface.state-changed")) EXCEPT
              !.deviceId = Some(d[1]), !.interfaceId = Some(d[2]), !.status = Some("down")],
           MaxApplied)

ApplyTopologyUpdated == \E body \in TopologyBodies : Reduce(body, MaxApplied)

NextReducer ==
  \/ ApplyLifecycle
  \/ ApplyTick
  \/ ApplyMetrics
  \/ ApplyTransmitted
  \/ ApplyDropped
  \/ ApplyInterfaceStateChanged
  \/ ApplyTopologyUpdated

SpecReducer == InitReducer /\ [][NextReducer]_vars

(***************************************************************************)
(* A project that only receives packet.transmitted events, each with a     *)
(* numeric latency.                                                        *)
(***************************************************************************)
ReducerIdle ==
  /\ fresh = createInitialProject(CreatePayload(Some("lab"), Some(EmptyTopology)), 1, 1)
  /\ seeded = 0
  /\ applied = <<>>
  /\ aggregate = fresh
  /\ passes = <<>>

InitMean == StoreIdle /\ HubIdle /\ OrderIdle /\ ReducerIdle

MeasureLatency == \E l \in {1, 10, 30} : Reduce(TransmittedBody(FromInt(l)), MaxTransmitted)

NextMean == MeasureLatency

SpecMean == InitMean /\ [][NextMean]_vars

(***************************************************************************)
(* Properties of the reducer (SpecReducer, SpecMean).                      *)
(***************************************************************************)
Metrics == aggregate.simulation.metrics

\* the event applied by the step
AppliedEvent == applied'[Len(applied')]

\* C3 (as stated): the project obtained by applying the events one by one equals
\* the fold of the reducer over the project's own eventLog, starting from the
\* project as it was created.
ReplayEqualsSequential == ApplyAll(fresh, aggregate.eventLog) = aggregate

\* C3 (amended): replaying the eventLog reproduces the project as long as no more
\* than MAX_EVENT_LOG_ENTRIES events have been applied to it (the log is then whole).
ReplayOfWholeLog ==
  Len(applied) <= MAX_EVENT_LOG_ENTRIES => ApplyAll(fresh, aggregate.eventLog) = aggregate

\* C3 witness: a project that has had exactly MAX_EVENT_LOG_ENTRIES events applied,
\* the last of them by a step, some of them changing the simulation state.
ReplayWitness ==
  /\ Len(applied) = MAX_EVENT_LOG_ENTRIES
  /\ seeded < Len(applied)
  /\ applied[Len(applied)].type = "packet.transmitted"
  /\ ApplyAll(fresh, aggregate.eventLog) = aggregate

\* C5: the eventLog is exactly the last min(n, 500) of the n events applied, in the
\* order they were applied.
LogIsLastRecorded ==
  LET n == Len(applied)
      k == Min(n, MAX_EVENT_LOG_ENTRIES)
  IN  /\ Len(aggregate.eventLog) = k
      /\ \A i \in 1..k : aggregate.eventLog[i] = applied[n - k + i]

\* C5 witness: two events more than the log holds have been applied; the two oldest
\* are gone and the newest is the last entry.
LogTrimmedWitness ==
  /\ Len(applied) = MAX_EVENT_LOG_ENTRIES + 2
  /\ Len(aggregate.eventLog) = MAX_EVENT_LOG_ENTRIES
  /\ aggregate.eventLog[1] = applied[3]
  /\ aggregate.eventLog[MAX_EVENT_LOG_ENTRIES] = applied[Len(applied)]

\* the integer a double holds (small non-negative integers only)
IntOf(x) == IF x.m = <<>> THEN 0 ELSE x.m[1] * Pow2(x.e)

RECURSIVE SumLatencies(_, _)
SumLatencies(events, k) ==
  IF k = 0 THEN 0
  ELSE SumLatencies(events, k - 1)
         + (IF events[k].type = "packet.transmitted" /\ events[k].latencyMs.tag = "number"
            THEN IntOf(events[k].latencyMs) ELSE 0)

CountTransmitted(events) ==
  Cardinality({k \in 1..Len(events) : events[k].type = "packet.transmitted"})

\* C6: once a packet.transmitted event has been applied, averageLatencyMs is the
\* arithmetic mean (L1 + ... + Lk) / k of the latencies of the k such events applied so
\* far (the double nearest to it).
MeanIsExact ==
  CountTransmitted(applied) > 0 =>
    Metrics.averageLatencyMs
      = JsDivInt(FromInt(SumLatencies(applied, Len(applied))), CountTransmitted(applied))

\* C8 (as stated): no applied event of any kind decreases totalPackets or
\* droppedPackets.
CountersNeverDecrease ==
  [][ /\ Metrics'.totalPackets >= Metrics.totalPackets
      /\ Metrics'.droppedPackets >= Metrics.droppedPackets ]_vars

\* C8 (amended): no applied event other than simulation.metrics decreases
\* totalPackets or droppedPackets (simulation.metrics replaces both by the event's).
CountersNeverDecreaseButByMetrics ==
  [][ AppliedEvent.type # "simulation.metrics" =>
        /\ Metrics'.totalPackets >= Metrics.totalPackets
        /\ Metrics'.droppedPackets >= Metrics.droppedPackets ]_vars

\* C8 witness: both counters have grown under events applied by steps.
CountersGrewWitness ==
  /\ Len(applied) - seeded = 3
  /\ \A k \in (seeded + 1)..Len(applied) : applied[k].type # "simulation.metrics"
  /\ Metrics.totalPackets = 2
  /\ Metrics.droppedPackets = seeded + 1

UnchangedByDropped ==
  /\ Metrics'.totalPackets = Metrics.totalPackets
  /\ Metrics'.averageLatencyMs = Metrics.averageLatencyMs
  /\ Metrics'.throughputMbps = Metrics.throughputMbps
  /\ aggregate'.simulation.status = aggregate.simulation.status
  /\ aggregate'.simulation.currentTick = aggregate.simulation.currentTick
  /\ aggregate'.topology = aggregate.topology

\* C9 (as stated): droppedPackets grows by exactly 1 under packet.dropped and is left
\* unchanged by every other kind; packet.dropped leaves totalPackets,
\* averageLatencyMs, throughputMbps, status, currentTick and the topology unchanged.
DroppedCountsOnlyDrops ==
  [][ /\ AppliedEvent.type = "packet.dropped" =>
           /\ Metrics'.droppedPackets = Metrics.droppedPackets + 1
           /\ UnchangedByDropped
      /\ AppliedEvent.type # "packet.dropped" =>
           Metrics'.droppedPackets = Metrics.droppedPackets ]_vars

\* C9 (amended): as C9, except that simulation.metrics sets droppedPackets to the
\* value the event carries.
DroppedCountsDropsAndReports ==
  [][ /\ AppliedEvent.type = "packet.dropped" =>
           /\ Metrics'.droppedPackets = Metrics.droppedPackets + 1
           /\ UnchangedByDropped
      /\ AppliedEvent.type = "simulation.metrics" =>
           Metrics'.droppedPackets = AppliedEvent.metrics[1].droppedPackets
      /\ AppliedEvent.type \notin {"packet.dropped", "simulation.metrics"} =>
           Metrics'.droppedPackets = Metrics.droppedPackets ]_vars

\* C9 witness: a packet.dropped event applied by a step to a running simulation
\* that had transmitted a packet.
DroppedAppliedWitness ==
  /\ Len(applied) - seeded = 3
  /\ applied[Len(applied)].type = "packet.dropped"
  /\ Metrics.droppedPackets = seeded + 1
  /\ Metrics.totalPackets = 1
  /\ aggregate.simulation.status = "running"

\* the event names a device of the topology and an interface of that device
NamesInterface(topology, event) ==
  \E d \in 1..Len(topology.devices) :
    /\ Some(topology.devices[d].id) = event.deviceId
    /\ \E i \in 1..Len(topology.devices[d].interfaces) :
         Some(topology.devices[d].interfaces[i].id) = event.interfaceId

\* C15: an interface.state-changed event that names no device of the project, or no
\* interface of the device it names, leaves the topology equal to the input's,
\* field for field, and is logged like any other event.
UnknownInterfaceLeavesTopology ==
  [][ (/\ AppliedEvent.type = "interface.state-changed"
       /\ ~NamesInterface(aggregate.topology, AppliedEvent)) =>
        /\ aggregate'.topology = aggregate.topology
        /\ aggregate'.eventLog[Len(aggregate'.eventLog)] = AppliedEvent
        /\ aggregate'.simulation.lastEventId = Some(AppliedEvent.id) ]_vars

\* C15 witness: after the topology was replaced by an event, an event naming an
\* unknown interface of a known device has been applied.
UnknownInterfaceWitness ==
  /\ Len(applied) - seeded = 2
  /\ applied[Len(applied) - 1].type = "topology.updated"
  /\ applied[Len(applied)].type = "interface.state-changed"
  /\ applied[Len(applied)].deviceId = Some("d1")
  /\ applied[Len(applied)].interfaceId = Some("i9")
  /\ aggregate.topology.devices[1].interfaces[1].status = "up"
  /\ aggregate.eventLog[Len(aggregate.eventLog)] = applied[Len(applied)]

(***************************************************************************)
(* normalizeProject on its own, applied to a possibly-partial project and  *)
(* then to its own result.                                                 *)
(***************************************************************************)
RawLayer(id, order) == [id |-> id, order |-> order, visible |-> None, locked |-> None]

\* Possibly-partial projects.  layers: absent or empty, unsorted, without order, of
\* equal order, and sorted.  simulation: absent, empty, and partly filled.
\* playback: absent, without speedMultiplier, with one that is not positive, and
\* with a valid one.  eventLog: not an array, empty, short, and longer than the limit.
RawProjects ==
  { [id |-> 1, name |-> "raw", description |-> None,
     topology |-> [LabTopology EXCEPT !.layers = layers],
     simulation |-> simulation, playback |-> playback, scenarios |-> <<>>,
     eventLog |-> eventLog, createdAt |-> 1, updatedAt |-> 1, tags |-> <<>>]
    : layers \in
        { <<>>,
          LabTopology.layers,
          << RawLayer("layer-a", None), RawLayer("layer-b", None) >>,
          << RawLayer("layer-a", None), RawLayer("layer-b", Some(0)),
             RawLayer("layer-c", None) >>,
          << RawLayer("layer-a", Some(3)), RawLayer("layer-b", Some(3)),
             RawLayer("layer-c", Some(1)) >>,
          createDefaultTopologyLayers },
      simulation \in
        { None,
          Some(SimulationPatch(None, None)),
          Some(SimulationPatch(Some("running"), Some(ReportedMetrics))) },
      playback \in
        { None, Some(PlaybackPatch(None)), Some(PlaybackPatch(Some(0))),
          Some(PlaybackPatch(Some(0 - 2))), Some(PlaybackPatch(Some(4))) },
      eventLog \in
        { None, Some(<<>>), Some([k \in 1..2 |-> SeedEvent(k, 1)]),
          Some([k \in 1..(MAX_EVENT_LOG_ENTRIES + 1) |-> SeedEvent(k, 1)]) } }

InitNormalize ==
  /\ StoreIdle
  /\ HubIdle
  /\ OrderIdle
  /\ fresh = createInitialProject(CreatePayload(Some("lab"), Some(EmptyTopology)), 1, 1)
  /\ seeded = 0
  /\ applied = <<>>
  /\ aggregate = fresh
  /\ passes \in { <<raw>> : raw \in RawProjects }

\* normalizeProject(x)
NormalizeOnce ==
  /\ Len(passes) = 1
  /\ passes' = Append(passes, normalizeProject(passes[1]))
  /\ UNCHANGED <<aggregate, fresh, applied, seeded, storeVars, orderVars, hubVars>>

\* normalizeProject(normalizeProject(x))
NormalizeAgain ==
  /\ Len(passes) = 2
  /\ passes' = Append(passes, normalizeProject(PartialProject(passes[2])))
  /\ UNCHANGED <<aggregate, fresh, applied, seeded, storeVars, orderVars, hubVars>>

NextNormalize ==
  \/ NormalizeOnce
  \/ NormalizeAgain

SpecNormalize == InitNormalize /\ [][NextNormalize]_vars

\* C16: normalizeProject(normalizeProject(x)) equals normalizeProject(x) for every
\* possibly-partial project x.
NormalizeIsIdempotent == Len(passes) = 3 => passes[3] = passes[2]

\* C16 witness: a project without simulation and eventLog, with a speedMultiplier
\* that is not positive and layers some of which have no order, normalized twice;
\* the first pass filled the defaults and sorted the layers.
NormalizeWitness ==
  /\ Len(passes) = 3
  /\ passes[1].simulation = None
  /\ passes[1].eventLog = None
  /\ passes[1].playback = Some(PlaybackPatch(Some(0)))
  /\ Len(passes[1].topology.layers) = 3
  /\ passes[1].topology.layers[1].order = None
  /\ passes[2].playback.speedMultiplier = 1
  /\ passes[2].simulation.status = "idle"
  /\ passes[2].eventLog = <<>>
  /\ passes[2].topology.layers[1].id = "layer-a"
  /\ passes[2].topology.layers[2].id = "layer-b"
  /\ passes[2].topology.layers[3].id = "layer-c"
  /\ passes[3] = passes[2]

(***************************************************************************)
(* The store on its own: its methods called one after another.  Each call  *)
(* reads the clock once, and the clock has advanced by the next call.      *)
(***************************************************************************)
MaxCalls == 2

MissingIds == {0}

\* one accepted event of each kind
KindBodies ==
  { [Body(Some("simulation.started")) EXCEPT !.status = Some("running")],
    [Body(Some("simulation.paused"))  EXCEPT !.status = Some("paused")],
    [Body(Some("simulation.resumed")) EXCEPT !.status = Some("running")],
    [Body(Some("simulation.stopped")) EXCEPT !.status = Some("stopped")],
    [Body(Some("simulation.tick")) EXCEPT !.tick = Some(5)],
    TransmittedBody(FromInt(10)) }
    \cup MetricsBodies \cup DroppedBodies \cup TopologyBodies
    \cup { [Body(Some("interface.state-changed")) EXCEPT
              !.deviceId = Some("d1"), !.interfaceId = Some("i1"), !.status = Some("down")] }

\* a project read from elsewhere that has no simulation, playback or eventLog
ImportedBare(id) ==
  [id |-> id, name |-> "imported", description |-> None, topology |-> EmptyTopology,
   simulation |-> None, playback |-> None, scenarios |-> <<>>, eventLog |-> None,
   createdAt |-> 1, updatedAt |-> 1, tags |-> <<>>]

\* lists read from elsewhere: none, a stored project whose log has grown past the
\* limit, and twice a bare project
ImportedLists ==
  {<<>>} \cup { << [PartialProject(projects[i]) EXCEPT
                      !.eventLog = Some(projects[i].eventLog
                                          \o << SeedEvent(0, projects[i].id),
                                                SeedEvent(0, projects[i].id) >>)] >>
                  : i \in 1..Len(projects) }
         \cup { <<ImportedBare(id), ImportedBare(id)>> : id \in {0 - 1} }

InitStore ==
  /\ ReducerIdle
  /\ HubIdle
  /\ OrderIdle
  /\ calls = 0
  /\ lastCall = NoCall
  /\ \/ projects = <<>> /\ uuid = 1 /\ clock = 1
     \/ \E n \in SeedLengths :
          /\ projects = << ApplyAll(createInitialProject(
                                     CreatePayload(Some("lab"), Some(LabTopology)), 1, 1),
                                   [k \in 1..n |-> SeedEvent(k, 1)]) >>
          /\ uuid = n + 2
          /\ clock = n + 2

Called(op, projectId, event, update, found) ==
  /\ calls < MaxCalls
  /\ calls' = calls + 1
  /\ clock' = clock + 1
  /\ lastCall' = [op |-> op, projectId |-> projectId, event |-> event, update |-> update,
                  found |-> found]
  /\ UNCHANGED <<reducerVars, orderVars, hubVars>>

CallCreate ==
  \E payload \in { CreatePayload(Some("lab"), Some(LabTopology)),
                   CreatePayload(Some("core"), Some(EmptyTopology)) } :
    /\ projects' = StoreCreate(projects, payload, uuid, clock).projects
    /\ uuid' = uuid + 1
    /\ Called("create", Some(uuid), None, None, TRUE)

\* the ids a caller passes: of a stored project, of the project of the call before
\* (which that call may have deleted), or of no project ever stored
CallIds ==
  Ids(projects) \cup MissingIds
    \cup (IF lastCall.projectId = None THEN {} ELSE {lastCall.projectId[1]})

CallGet ==
  \E projectId \in CallIds :
    /\ projects' = projects
    /\ uuid' = uuid
    /\ Called("get", Some(projectId), None, None, StoreGet(projects, projectId) # None)

CallUpdate ==
  \E projectId \in CallIds, payload \in UpdatePayloads :
    LET updated == StoreUpdate(projects, projectId, payload, clock)
    IN  /\ projects' = updated.projects
        /\ uuid' = uuid
        /\ Called("update", Some(projectId), None, Some(payload), updated.result # None)

CallDelete ==
  \E projectId \in CallIds :
    LET deleted == StoreDelete(projects, projectId)
    IN  /\ projects' = deleted.projects
        /\ uuid' = uuid
        /\ Called("delete", Some(projectId), None, None, deleted.result)

CallRecordEvent ==
  \E projectId \in CallIds, body \in KindBodies :
    LET event    == hydratedEvent(body, projectId, uuid, clock)
        recorded == StoreRecordEvent(projects, projectId, event)
    IN  /\ projects' = recorded.projects
        /\ uuid' = uuid + 1
        /\ Called("recordEvent", Some(projectId), Some(event), None,
                  recorded.result # None)

CallReplaceAll ==
  \E input \in ImportedLists :
    /\ projects' = StoreReplaceAll(input)
    /\ uuid' = uuid
    /\ Called("replaceAll", None, None, None, TRUE)

NextStore ==
  \/ CallCreate
  \/ CallGet
  \/ CallUpdate
  \/ CallDelete
  \/ CallRecordEvent
  \/ CallReplaceAll

SpecStore == InitStore /\ [][NextStore]_vars

(***************************************************************************)
(* Properties of the store (SpecStore).                                    *)
(***************************************************************************)
\* C4: every stored project's eventLog has at most 500 entries.
LogsAreBounded ==
  \A i \in 1..Len(projects) : Len(projects[i].eventLog) <= MAX_EVENT_LOG_ENTRIES

\* C4 witness: a stored project whose log is full after more events were recorded
\* or imported than the log holds.
LogFullWitness ==
  /\ lastCall.op \in {"recordEvent", "replaceAll"}
  /\ calls >= 2
  /\ \E i \in 1..Len(projects) :
       /\ Len(projects[i].eventLog) = MAX_EVENT_LOG_ENTRIES
       /\ projects[i].eventLog[1].id > 2

\* C7: after recordEvent(id, e) found the project, the stored project's
\* simulation.lastEventId is e.id, whatever the kind of e.
LastEventIdIsRecorded ==
  (lastCall.op = "recordEvent" /\ lastCall.found) =>
    Get(projects, lastCall.projectId[1]).simulation.lastEventId
      = Some(lastCall.event[1].id)

\* C7 witness: recordEvent has just replaced an earlier lastEventId.
LastEventIdWitness ==
  /\ lastCall.op = "recordEvent"
  /\ lastCall.found
  /\ calls = MaxCalls
  /\ lastCall.event[1].type = "topology.updated"
  /\ Len(Get(projects, lastCall.projectId[1]).eventLog) >= 2
  /\ Get(projects, lastCall.projectId[1]).simulation.lastEventId = Some(lastCall.event[1].id)

(***************************************************************************)
(* The server: two writers send requests, the handlers run one at a time   *)
(* (Node runs each handler to completion), the hub sends to the open       *)
(* sockets, a subscriber reads its messages in the order they were sent.   *)
(***************************************************************************)
MaxRequests == 2

MaxConnects == 1

Request(op, projectId) ==
  [op |-> op, projectId |-> projectId, create |-> None, update |-> None, event |-> None]

Init ==
  /\ ReducerIdle
  /\ HubIdle
  /\ OrderIdle
  /\ calls = 0
  /\ lastCall = NoCall
  /\ \/ projects = <<>> /\ uuid = 1 /\ clock = 1
     \/ /\ projects = << createInitialProject(
                            CreatePayload(Some("lab"), Some(LabTopology)), 1, 1) >>
        /\ uuid = 2
        /\ clock = 2

Other(w) == CHOOSE v \in Writers : v # w

Send(w, request) ==
  /\ pending[w] = None
  /\ sent < MaxRequests
  /\ pending' = [pending EXCEPT ![w] = Some(request)]
  /\ sent' = sent + 1
  \* overlap holds the stored project when the request races with the request the
  \* other writer has pending: both record an event on the same stored project
  /\ overlap' = IF /\ request.op = "submitEvent"
                    /\ Has(projects, request.projectId)
                    /\ pending[Other(w)] # None
                    /\ pending[Other(w)][1].op = "submitEvent"
                    /\ pending[Other(w)][1].projectId = request.projectId
                 THEN Some(Get(projects, request.projectId))
                 ELSE None
  /\ UNCHANGED <<reducerVars, orderVars, storeVars, done, sock, wire, replica, connects,
                 published, joined, received, frames>>

SendCreate ==
  \E w \in Writers,
     payload \in { CreatePayload(Some("lab"), Some(LabTopology)),
                   CreatePayload(Some(" "), Some(EmptyTopology)) } :
    Send(w, [Request("create", 0) EXCEPT !.create = Some(payload)])

SendUpdate ==
  \E w \in Writers, projectId \in Ids(projects) \cup MissingIds,
     payload \in { UpdatePayload(Some("edge"), None, None, None),
                   UpdatePayload(None, None, Some(SimulationPatch(Some("warp"), None)),
                                 None) } :
    Send(w, [Request("update", projectId) EXCEPT !.update = Some(payload)])

SendDelete ==
  \E w \in Writers, projectId \in Ids(projects) \cup MissingIds :
    Send(w, Request("delete", projectId))

SendEvent ==
  \E w \in Writers, projectId \in Ids(projects) \cup MissingIds,
     body \in { TransmittedBody(FromInt(10)),
                TransmittedBody(JsUndefined),
                [Body(Some("simulation.started")) EXCEPT !.status = Some("warp")],
                Body(Some("simulation.tick")) } :
    Send(w, [Request("submitEvent", projectId) EXCEPT !.event = Some(body)])

\* a variant of broadcast that puts a message in front of what a socket has not
\* yet read
BroadcastPrepends(messages) ==
  /\ wire' = [s \in DOMAIN sock |->
                IF sock[s] = "open"
                THEN [i \in 1..Len(messages) |-> JsonMessage(messages[i])] \o wire[s]
                ELSE wire[s]]
  /\ published' = published \o messages

\* a variant of broadcast that does not look at a client's readyState
BroadcastToAll(messages) ==
  /\ wire' = [s \in DOMAIN sock |->
                wire[s] \o [i \in 1..Len(messages) |-> JsonMessage(messages[i])]]
  /\ published' = published \o messages

\* a variant of broadcast that returns only once every open socket has been read
\* empty
BroadcastWaits(messages) ==
  /\ \A s \in DOMAIN sock : wire[s] = <<>>
  /\ wire' = [s \in DOMAIN sock |->
                IF sock[s] = "open"
                THEN [i \in 1..Len(messages) |-> JsonMessage(messages[i])]
                ELSE wire[s]]
  /\ published' = published \o messages

\* a variant of broadcast that sends the messages of the list last to first
BroadcastReversed(messages) ==
  LET reversed == [i \in 1..Len(messages) |-> messages[Len(messages) + 1 - i]]
  IN  /\ wire' = [s \in DOMAIN sock |->
                    IF sock[s] = "open"
                    THEN wire[s] \o [i \in 1..Len(reversed) |-> JsonMessage(reversed[i])]
                    ELSE wire[s]]
      /\ published' = published \o reversed

\* the response code of a handler that calls broadcast on each of the messages and
\* then answers code: 500, from withErrorHandling, when a broadcast throws
Status(code, messages) ==
  IF \E i \in 1..Len(messages) : StringifyThrows(messages[i]) THEN 500 ELSE code

\* broadcast(message) for each message of the list, in order, up to the first for
\* which JSON.stringify throws
Broadcast(messages) ==
  LET encoded == { i \in 0..Len(messages) :
                     \A j \in 1..i : ~StringifyThrows(messages[j]) }
      out     == SubSeq(messages, 1, CHOOSE i \in encoded : \A j \in encoded : j <= i)
  IN  /\ wire' = [s \in DOMAIN sock |->
                    IF sock[s] = "open"
                    THEN wire[s] \o [i \in 1..Len(out) |-> JsonMessage(out[i])]
                    ELSE wire[s]]
      /\ published' = published \o out

\* the handler of writer w's request has run: store, id counter and response
Handled(w, op, store, uuids, code, event) ==
  /\ pending[w] # None
  /\ pending[w][1].op = op
  /\ projects' = store
  /\ uuid' = uuid + uuids
  /\ clock' = clock + 1
  /\ pending' = [pending EXCEPT ![w] = None]
  /\ done' = [done EXCEPT ![w] = [code |-> code, event |-> event, op |-> op]]
  /\ UNCHANGED <<reducerVars, orderVars, calls, lastCall, sock, replica, sent, connects,
                 overlap, joined, received, frames>>

\* POST /api/projects
HandleCreate ==
  \E w \in Writers :
    LET payload == IF pending[w] = None THEN None ELSE pending[w][1].create
        created == StoreCreate(projects, payload[1], uuid, clock)
    IN  IF ~validateProjectCreate(payload)
        THEN Handled(w, "create", projects, 0, 400, None) /\ Broadcast(<<>>)
        ELSE LET messages == << [Message("project.created") EXCEPT
                                   !.project = created.result] >>
             IN  /\ Handled(w, "create", created.projects, 1, Status(201, messages), None)
                 /\ Broadcast(messages)

\* PUT /api/projects/:projectId
HandleUpdate ==
  \E w \in Writers :
    LET request == pending[w][1]
        updated == StoreUpdate(projects, request.projectId, request.update[1], clock)
    IN  /\ pending[w] # None
        /\ IF request.update = None
           THEN Handled(w, "update", projects, 0, 400, None) /\ Broadcast(<<>>)
           ELSE IF updated.result = None
           THEN Handled(w, "update", projects, 0, 404, None) /\ Broadcast(<<>>)
           ELSE LET messages == << [Message("project.updated") EXCEPT
                                      !.project = updated.result] >>
                IN  /\ Handled(w, "update", updated.projects, 0, Status(200, messages),
                               None)
                    /\ Broadcast(messages)

\* DELETE /api/projects/:projectId
HandleDelete ==
  \E w \in Writers :
    LET request == pending[w][1]
        deleted == StoreDelete(projects, request.projectId)
    IN  /\ pending[w] # None
        /\ IF ~deleted.result
           THEN Handled(w, "delete", projects, 0, 404, None) /\ Broadcast(<<>>)
           ELSE LET messages == << [Message("project.deleted") EXCEPT
                                      !.projectId = Some(request.projectId)] >>
                IN  /\ Handled(w, "delete", deleted.projects, 0, Status(204, messages),
                               None)
                    /\ Broadcast(messages)

\* POST /api/projects/:projectId/simulation/events.  When recordEvent finds the
\* project and the reducer throws (assertNever), withErrorHandling answers 500.
HandleSubmitEvent ==
  \E w \in Writers :
    LET request  == pending[w][1]
        incoming == request.event
        event    == hydratedEvent(incoming[1], request.projectId, uuid, clock)
        uuids    == IF incoming[1].id = None THEN 1 ELSE 0
        recorded == StoreRecordEvent(projects, request.projectId, event)
    IN  /\ pending[w] # None
        /\ IF incoming = None \/ incoming[1].type = None
           THEN Handled(w, "submitEvent", projects, 0, 400, None) /\ Broadcast(<<>>)
           ELSE IF validateSimulationEvent(event) # None
           THEN Handled(w, "submitEvent", projects, uuids, 400, None) /\ Broadcast(<<>>)
           ELSE IF Has(projects, request.projectId) /\ applyThrows(event)
           THEN Handled(w, "submitEvent", projects, uuids, 500, None) /\ Broadcast(<<>>)
           ELSE IF recorded.result = None
           THEN Handled(w, "submitEvent", projects, uuids, 404, None) /\ Broadcast(<<>>)
           ELSE LET messages == << [Message("simulation.event") EXCEPT
                                      !.event = Some(event)],
                                   [Message("project.updated") EXCEPT
                                      !.project = recorded.result] >>
                IN  /\ Handled(w, "submitEvent", recorded.projects, uuids,
                               Status(202, messages), Some(event))
                    /\ Broadcast(messages)

\* a variant of the connection handler that sends nothing
ConnectWithoutInitial ==
  \E s \in DOMAIN sock :
    /\ sock[s] = "closed"
    /\ connects < MaxConnects
    /\ connects' = connects + 1
    /\ sock' = [sock EXCEPT ![s] = "open"]
    /\ wire' = [wire EXCEPT ![s] = <<>>]
    /\ joined' = [joined EXCEPT ![s] = Len(published)]
    /\ received' = [received EXCEPT ![s] = <<>>]
    /\ UNCHANGED <<reducerVars, orderVars, storeVars, pending, done, replica, sent, overlap,
                   published, frames>>

\* wss.on('connection'): the socket is open and projects.initial is sent on it
\* a variant that sends a new subscriber the notifications published so far as well
ConnectReplays ==
  \E s \in DOMAIN sock :
    /\ sock[s] = "closed"
    /\ connects < MaxConnects
    /\ connects' = connects + 1
    /\ sock' = [sock EXCEPT ![s] = "open"]
    /\ wire' = [wire EXCEPT ![s] =
                  << JsonMessage([Message("projects.initial") EXCEPT
                                    !.projects = StoreList(projects)]) >>
                    \o [i \in 1..Len(published) |-> JsonMessage(published[i])]]
    /\ joined' = [joined EXCEPT ![s] = Len(published)]
    /\ received' = [received EXCEPT ![s] = <<>>]
    /\ UNCHANGED <<reducerVars, orderVars, storeVars, pending, done, replica, sent, overlap,
                   published, frames>>

Connect ==
  \E s \in DOMAIN sock :
    /\ sock[s] = "closed"
    /\ connects < MaxConnects
    /\ connects' = connects + 1
    /\ sock' = [sock EXCEPT ![s] = "open"]
    /\ wire' = [wire EXCEPT ![s] =
                  << JsonMessage([Message("projects.initial") EXCEPT
                                    !.projects = StoreList(projects)]) >>]
    /\ joined' = [joined EXCEPT ![s] = Len(published)]
    /\ received' = [received EXCEPT ![s] = <<>>]
    /\ UNCHANGED <<reducerVars, orderVars, storeVars, pending, done, replica, sent, overlap,
                   published, frames>>

\* the subscriber reads the next message
Deliver ==
  \E s \in DOMAIN sock :
    /\ sock[s] = "open"
    /\ wire[s] # <<>>
    /\ replica' = [replica EXCEPT ![s] = OnMessage(@, Head(wire[s]))]
    /\ wire' = [wire EXCEPT ![s] = Tail(@)]
    /\ received' = [received EXCEPT ![s] = Append(@, Head(wire[s]))]
    /\ UNCHANGED <<reducerVars, orderVars, storeVars, pending, done, sock, sent, connects,
                   overlap, published, joined, frames>>

\* the subscriber goes away; what it had not read, and what the server had not yet
\* handled of its frames, is lost
Close ==
  \E s \in DOMAIN sock :
    /\ sock[s] = "open"
    /\ sock' = [sock EXCEPT ![s] = "closed"]
    /\ wire' = [wire EXCEPT ![s] = <<>>]
    /\ joined' = [joined EXCEPT ![s] = 0]
    /\ received' = [received EXCEPT ![s] = <<>>]
    /\ frames' = [frames EXCEPT ![s].queue = <<>>]
    /\ UNCHANGED <<reducerVars, orderVars, storeVars, pending, done, replica, sent,
                   connects, overlap, published>>

Next ==
  \/ SendCreate
  \/ SendUpdate
  \/ SendDelete
  \/ SendEvent
  \/ HandleCreate
  \/ HandleUpdate
  \/ HandleDelete
  \/ HandleSubmitEvent
  \/ Connect
  \/ Deliver
  \/ Close

Spec == Init /\ [][Next]_vars

\* writer w's request can be answered: the step every branch of every handler ends
\* with (the response is written, broadcast returns) can be taken
CanAnswer(w) ==
  /\ pending[w] # None
  /\ ENABLED (Handled(w, pending[w][1].op, projects, 0, 0, None) /\ Broadcast(<<>>))

\* The server's event loop runs the handler of every request it has received: a
\* request that can be answered from some point on is answered.  No step of a
\* subscriber is required to happen.
SpecLive ==
  /\ Spec
  /\ \A w \in Writers :
       \/ []<>(~CanAnswer(w))
       \/ []<><<pending[w] # None /\ pending'[w] = None>>_vars

(***************************************************************************)
(* Properties of the server (Spec).                                        *)
(***************************************************************************)
BothAccepted ==
  /\ overlap # None
  /\ \A w \in Writers : pending[w] = None /\ done[w].code = 202

\* C1: when two writers had events for the same project pending at the same time
\* and both have been answered, the stored project is the reducer applied to the
\* project as it was, in one of the two orders of the events, and its eventLog is
\* the earlier log followed by the two events, each once.
RaceIsSerialized ==
  BothAccepted =>
    LET base  == overlap[1]
        e1    == done["w1"].event[1]
        e2    == done["w2"].event[1]
        final == Get(projects, base.id)
    IN  /\ Has(projects, base.id)
        /\ \/ final = applySimulationEvent(applySimulationEvent(base, e1), e2)
           \/ final = applySimulationEvent(applySimulationEvent(base, e2), e1)
        /\ \/ final.eventLog = base.eventLog \o <<e1, e2>>
           \/ final.eventLog = base.eventLog \o <<e2, e1>>

\* C1 witness: the two writers raced with different events, a packet and a start,
\* and both have been answered.
RaceWitness ==
  /\ BothAccepted
  /\ done["w1"].event[1].type = "packet.transmitted"
  /\ done["w2"].event[1].type = "simulation.started"
  /\ done["w1"].event[1].id > done["w2"].event[1].id
  /\ Len(Get(projects, overlap[1].id).eventLog) = 2

\* C2: a subscriber whose socket is open and that has read every message sent to it
\* holds the same projects as the store.
ReplicaConverges ==
  \A s \in Subscribers :
    (sock[s] = "open" /\ wire[s] = <<>>) => AsMap(replica[s].projects) = AsMap(projects)

\* C10: every stored project's simulation.status is one of idle, running, paused,
\* stopped, error.
StatusIsKnown ==
  \A i \in 1..Len(projects) : projects[i].simulation.status
                                \in {"idle", "running", "paused", "stopped", "error"}

(***************************************************************************)
(* The event endpoint on its own: one client posts bodies of every kind,   *)
(* well-formed or not, and a subscriber listens.  A body's type is None    *)
(* when the body has no type or one that is not a string.                  *)
(***************************************************************************)
\* the bodies a client posts: accepted ones, one of them with an id of the client's
\* choice and one with an id and a projectId of the client's choice, and rejected ones
BoundaryBodies ==
  KindBodies
    \cup { Body(None),
           Body(Some("simulation.rewound")),
           Body(Some("simulation.tick")),
           [Body(Some("packet.dropped")) EXCEPT !.packet = Some(1)],
           [Body(Some("packet.transmitted")) EXCEPT !.packet = Some(1),
                                                    !.linkId = Some("")] }
    \cup { [Body(Some("simulation.tick")) EXCEPT !.tick = Some(5), !.id = Some(99)],
           [Body(Some("simulation.tick")) EXCEPT !.tick = Some(5), !.id = Some(98),
                                                 !.projectId = Some(7)] }

PostEvent ==
  \E projectId \in Ids(projects) \cup MissingIds, body \in BoundaryBodies :
    Send("w1", [Request("submitEvent", projectId) EXCEPT !.event = Some(body)])

NextBoundary ==
  \/ PostEvent
  \/ HandleSubmitEvent
  \/ Connect
  \/ Deliver
  \/ Close

SpecBoundary == Init /\ [][NextBoundary]_vars

(***************************************************************************)
(* Properties of the event endpoint (SpecBoundary).                        *)
(***************************************************************************)
\* a field that is absent, or present and empty
Lacks(field) == field = None \/ field[1] = ""

\* the body has no usable type, names no known kind, or lacks a field that the
\* boundary requires for its kind
FailsValidation(body) ==
  \/ body.type = None
  \/ body.type[1] \notin EventKinds
  \/ body.type[1] \in LifecycleKinds /\ Lacks(body.status)
  \/ body.type[1] = "simulation.tick" /\ body.tick = None
  \/ body.type[1] = "simulation.metrics" /\ body.metrics = None
  \/ body.type[1] = "packet.transmitted" /\ (body.packet = None \/ Lacks(body.linkId))
  \/ body.type[1] = "packet.dropped" /\ (body.packet = None \/ Lacks(body.reason))
  \/ body.type[1] = "interface.state-changed"
       /\ (Lacks(body.deviceId) \/ Lacks(body.interfaceId) \/ Lacks(body.status))
  \/ body.type[1] = "topology.updated" /\ body.topology = None

\* writer w's pending submitEvent request is answered by the step
Answers(w) ==
  /\ pending[w] # None
  /\ pending[w][1].op = "submitEvent"
  /\ pending'[w] = None

\* C11: a submitEvent request whose event fails validation is answered 400, leaves
\* every stored project as it was, and no message is sent to any subscriber.
InvalidEventIsRejected ==
  [][ \A w \in Writers :
        (Answers(w) /\ FailsValidation(pending[w][1].event[1])) =>
          /\ done'[w].code = 400
          /\ projects' = projects
          /\ wire' = wire
          /\ published' = published ]_vars

\* C11 witness: an event has been rejected while a project was stored and a
\* subscriber was listening, after an event had been accepted.
InvalidEventWitness ==
  /\ done["w1"].op = "submitEvent"
  /\ done["w1"].code = 400
  /\ sock["s1"] = "open"
  /\ Len(published) = 2
  /\ \E i \in 1..Len(projects) : Len(projects[i].eventLog) = 1

(***************************************************************************)
(* Properties of the server (Spec): errors and notifications.              *)
(***************************************************************************)
\* writer w's pending request is answered by the step
Answered(w) == pending[w] # None /\ pending'[w] = None

\* the request passes the checks its handler makes before it calls the store
PassesBoundary(request) ==
  \/ request.op = "update" /\ request.update # None
  \/ request.op = "delete"
  \/ request.op = "submitEvent" /\ request.event # None
       /\ ~FailsValidation(request.event[1])

\* C12: an update, a delete or an event on an id that is not in the store is
\* answered 404, the store stays as it was and nothing is broadcast.
MissingIdIsNotFound ==
  [][ \A w \in Writers :
        (/\ Answered(w)
         /\ PassesBoundary(pending[w][1])
         /\ ~Has(projects, pending[w][1].projectId)) =>
          /\ done'[w].code = 404
          /\ projects' = projects
          /\ wire' = wire
          /\ published' = published ]_vars

\* C12 witness: an update and an event on a missing id have both been answered 404
\* while a project was stored and a subscriber was listening.
MissingIdWitness ==
  /\ done["w1"].op = "update" /\ done["w1"].code = 404
  /\ done["w2"].op = "submitEvent" /\ done["w2"].code = 404
  /\ Len(projects) = 1
  /\ sock["s1"] = "open"
  /\ published = <<>>

\* the event carries every payload field of its kind
CarriesRequiredFields(event) ==
  CASE event.type \in LifecycleKinds -> event.status # None
    [] event.type = "simulation.tick" -> event.tick # None
    [] event.type = "simulation.metrics" -> event.metrics # None
    [] event.type = "packet.transmitted" ->
         /\ event.packet # None
         /\ event.linkId # None
         /\ event.latencyMs.tag # "undefined"
    [] event.type = "packet.dropped" -> event.packet # None /\ event.reason # None
    [] event.type = "interface.state-changed" ->
         event.deviceId # None /\ event.interfaceId # None /\ event.status # None
    [] event.type = "topology.updated" -> event.topology # None
    [] OTHER -> FALSE

\* C13: every event that the event endpoint accepted (202) and handed to the
\* reducer carries every payload field required for its kind.
AcceptedEventsAreComplete ==
  \A w \in Writers :
    (done[w].op = "submitEvent" /\ done[w].code = 202) =>
      CarriesRequiredFields(done[w].event[1])

(***************************************************************************)
(* Properties of the event endpoint (SpecBoundary), continued.             *)
(***************************************************************************)
\* C14: no event that passes validateSimulationEvent reaches the reducer's default
\* case: every accepted event has one of the ten kinds, and no request is answered
\* 500 (the answer when assertNever throws).
DefaultCaseIsUnreachable ==
  \A w \in Writers :
    /\ done[w].code # 500
    /\ done[w].code = 202 => done[w].event[1].type \in EventKinds

\* C14 witness: two events of different kinds have been accepted and recorded.
DefaultCaseWitness ==
  /\ done["w1"].code = 202
  /\ done["w1"].event[1].type = "topology.updated"
  /\ \E i \in 1..Len(projects) :
       /\ Len(projects[i].eventLog) = 2
       /\ projects[i].eventLog[1].type = "simulation.metrics"

(***************************************************************************)
(* Properties of the hub (Spec).                                           *)
(***************************************************************************)
\* the messages published since subscriber s connected, as they read on the socket
PublishedSince(s) ==
  [i \in 1..(Len(published) - joined[s]) |-> JsonMessage(published[joined[s] + i])]

\* message is the notification of the mutation that took the store from before to
\* after
Notifies(message, before, after) ==
  CASE message.type = "project.created" ->
         /\ message.project # None
         /\ ~Has(before, message.project[1].id)
         /\ Has(after, message.project[1].id)
         /\ Get(after, message.project[1].id) = message.project[1]
    [] message.type = "project.updated" ->
         /\ message.project # None
         /\ Has(before, message.project[1].id)
         /\ Has(after, message.project[1].id)
         /\ Get(after, message.project[1].id) = message.project[1]
    [] message.type = "project.deleted" ->
         /\ message.projectId # None
         /\ Has(before, message.projectId[1])
         /\ ~Has(after, message.projectId[1])
    [] message.type = "simulation.event" ->
         /\ message.event # None
         /\ Has(after, message.event[1].projectId)
         /\ LET log == Get(after, message.event[1].projectId).eventLog
            IN  log # <<>> /\ log[Len(log)] = message.event[1]
    [] OTHER -> FALSE

\* C17: for every subscriber, the broadcast messages it has read and those still on
\* its socket are, in this order, the messages the hub published since it connected;
\* and the hub publishes in the order the store mutations are committed: messages
\* are only ever appended, a step appends messages exactly when it changes the
\* store, and what it appends notifies that very change.
DeliveryIsInPublishOrder ==
  /\ [](\A s \in Subscribers :
          sock[s] = "open" => Tail(received[s] \o wire[s]) = PublishedSince(s))
  /\ [][ /\ Len(published') >= Len(published)
         /\ SubSeq(published', 1, Len(published)) = published
         /\ (projects' # projects) <=> (published' # published)
         /\ \A i \in (Len(published) + 1)..Len(published') :
              Notifies(published'[i], projects, projects') ]_vars

\* C17 witness: two mutations (a create and an accepted event) were committed while
\* a subscriber was listening, and it has read the initial list and both notifications in that order
\* with one message still on the socket.
DeliveryOrderWitness ==
  /\ sock["s1"] = "open"
  /\ Len(received["s1"]) = 3
  /\ received["s1"][2].type = "project.created"
  /\ received["s1"][3].type = "simulation.event"
  /\ Len(wire["s1"]) = 1
  /\ wire["s1"][1].type = "project.updated"
  /\ Len(projects) = 2

\* C18: on every connection projects.initial is the first message and the only one
\* of its type, among the messages read and those still on the socket; and at the
\* moment a subscriber connects, the one message put on its socket is
\* projects.initial carrying every project of the store, in the store's order, as
\* JSON writes them.
InitialIsSentOnceAndFirst ==
  /\ [](\A s \in Subscribers :
          sock[s] = "open" =>
            LET stream == received[s] \o wire[s]
            IN  /\ stream # <<>>
                /\ stream[1].type = "projects.initial"
                /\ \A i \in 2..Len(stream) : stream[i].type # "projects.initial")
  /\ [][ \A s \in Subscribers :
           (sock[s] = "closed" /\ sock'[s] = "open") =>
             /\ Len(wire'[s]) = 1
             /\ wire'[s][1].type = "projects.initial"
             /\ wire'[s][1].projects =
                  [i \in 1..Len(projects) |-> JsonProject(projects[i])]
             /\ received'[s] = <<>> ]_vars

\* C18 witness: a subscriber connected while the store held one project, read the
\* initial list of that one project and then a notification, and the store now
\* holds two projects.
InitialWitness ==
  /\ sock["s1"] = "open"
  /\ Len(received["s1"]) = 2
  /\ received["s1"][1].type = "projects.initial"
  /\ Len(received["s1"][1].projects) = 1
  /\ received["s1"][2].type = "project.created"
  /\ Len(projects) = 2

\* the notification type of a mutation made by operation op
NotificationOf(op) ==
  CASE op = "create" -> "project.created"
    [] op = "update" -> "project.updated"
    [] op = "delete" -> "project.deleted"
    [] op = "submitEvent" -> "simulation.event"

\* the messages the step publishes
NewlyPublished == SubSeq(published', Len(published) + 1, Len(published'))

\* C19: a step in which a request changes the store publishes exactly one message of
\* the operation's notification type, and that message notifies this change:
\* project.created and project.updated carry the stored project, project.deleted
\* carries the id and nothing else, simulation.event carries the recorded event and
\* no project.  Whatever a step publishes is put exactly once, in order, on the
\* socket of every subscriber that is open, and nothing is put on the socket of a
\* subscriber that is not open.
MutationsAreNotifiedOnce ==
  [][ /\ \A w \in Writers :
           (Answered(w) /\ projects' # projects) =>
             LET type  == NotificationOf(pending[w][1].op)
                 typed == {i \in 1..Len(NewlyPublished) : NewlyPublished[i].type = type}
             IN  /\ Cardinality(typed) = 1
                 /\ \A i \in typed :
                      LET message == NewlyPublished[i]
                      IN  /\ Notifies(message, projects, projects')
                          /\ message.projects = <<>>
                          /\ type = "project.deleted" =>
                               message = [Message(type) EXCEPT
                                            !.projectId = Some(pending[w][1].projectId)]
                          /\ type = "simulation.event" =>
                               /\ message = [Message(type) EXCEPT !.event = message.event]
                               /\ message.event = done'[w].event
      /\ NewlyPublished # <<>> =>
           \A s \in Subscribers :
             IF sock[s] = "open"
             THEN /\ sock'[s] = "open"
                  /\ wire'[s] = wire[s] \o [i \in 1..Len(NewlyPublished) |->
                                              JsonMessage(NewlyPublished[i])]
             ELSE wire'[s] = <<>> /\ wire[s] = <<>> ]_vars

\* C19 witness: a project was created while no subscriber was open and deleted while
\* one was: the subscriber connected after the first notification, and all it has
\* been sent is the initial list and project.deleted with the id, which it has read.
NotifiedOnceWitness ==
  /\ Len(published) = 2
  /\ published[1].type = "project.created"
  /\ published[2].type = "project.deleted"
  /\ joined["s1"] = 1
  /\ sock["s1"] = "open"
  /\ wire["s1"] = <<>>
  /\ Len(received["s1"]) = 2
  /\ received["s1"][2] = [Message("project.deleted") EXCEPT
                            !.projectId = Some(published[1].project[1].id)]

\* C20: a step that accepts an event sends each open subscriber one message, the
\* simulation.event carrying the event, and no message that carries a project.
AcceptedEventSendsRawEventOnly ==
  [][ \A w \in Writers :
        (Answers(w) /\ done'[w].code = 202) =>
          \A s \in Subscribers :
            sock[s] = "open" =>
              /\ wire'[s] = Append(wire[s],
                                   JsonMessage([Message("simulation.event") EXCEPT
                                                  !.event = done'[w].event]))
              /\ \A i \in (Len(wire[s]) + 1)..Len(wire'[s]) :
                   wire'[s][i].project = None /\ wire'[s][i].projects = <<>> ]_vars

(***************************************************************************)
(* Two store calls on different ids, made in one order on projects and in  *)
(* the opposite order on mirror.  Both stores start equal; the clock       *)
(* advances between the two calls.                                         *)
(***************************************************************************)
StoreCall(op, projectId) ==
  [op |-> op, projectId |-> projectId, update |-> None, event |-> None]

\* update, delete and recordEvent on a stored id and on a missing one
StoreCalls ==
  { [StoreCall("update", projectId) EXCEPT !.update = Some(payload)]
      : projectId \in {1, 2} \cup MissingIds, payload \in UpdatePayloads }
  \cup { StoreCall("delete", projectId) : projectId \in {1, 2} \cup MissingIds }
  \cup { [StoreCall("recordEvent", projectId) EXCEPT
            !.event = Some(hydratedEvent(body, projectId, 10 + projectId, 4))]
           : projectId \in {1, 2} \cup MissingIds, body \in KindBodies }

\* a variant in which the reducer stamps the project with the time of the call, not
\* with the event's timestamp
PerformStamping(store, call, now) ==
  CASE call.op = "update" ->
         StoreUpdate(store, call.projectId, call.update[1], now).projects
    [] call.op = "delete" -> StoreDelete(store, call.projectId).projects
    [] call.op = "recordEvent" ->
         LET recorded == StoreRecordEvent(store, call.projectId, call.event[1]).projects
         IN  [i \in 1..Len(recorded) |->
                IF recorded[i].id = call.projectId
                THEN [recorded[i] EXCEPT !.updatedAt = now]
                ELSE recorded[i]]

\* the map after the call is made at time now
Perform(store, call, now) ==
  CASE call.op = "update" ->
         StoreUpdate(store, call.projectId, call.update[1], now).projects
    [] call.op = "delete" -> StoreDelete(store, call.projectId).projects
    [] call.op = "recordEvent" ->
         StoreRecordEvent(store, call.projectId, call.event[1]).projects

InitOrder ==
  /\ ReducerIdle
  /\ HubIdle
  /\ projects = << applySimulationEvent(
                     createInitialProject(CreatePayload(Some("lab"), Some(LabTopology)), 1, 1),
                     SeedEvent(1, 1)),
                   createInitialProject(CreatePayload(Some("core"), Some(EmptyTopology)),
                                        2, 3) >>
  /\ mirror = projects
  /\ uuid = 5
  /\ clock = 5
  /\ calls = 0
  /\ lastCall = NoCall
  /\ plan \in { pair \in StoreCalls \X StoreCalls : pair[1].projectId # pair[2].projectId }

\* the k-th call of the pair made on each store
CallOfPair(k) ==
  /\ calls = k - 1
  /\ plan # <<>>
  /\ projects' = Perform(projects, plan[k], clock)
  /\ mirror' = Perform(mirror, plan[3 - k], clock)
  /\ calls' = k
  /\ clock' = clock + 1
  /\ lastCall' = [op |-> plan[k].op, projectId |-> Some(plan[k].projectId),
                  event |-> plan[k].event, update |-> plan[k].update,
                  found |-> Has(projects, plan[k].projectId)]
  /\ UNCHANGED <<reducerVars, hubVars, uuid, plan>>

NextOrder == \E k \in {1, 2} : CallOfPair(k)

SpecOrder == InitOrder /\ [][NextOrder]_vars

\* a call on projectId took the map from before to after and left every other
\* project, and the order of the map, as it was
OthersUntouched(before, after, projectId) ==
  /\ Ids(after) \in {Ids(before), Ids(before) \ {projectId}}
  /\ \A id \in Ids(before) \ {projectId} : Has(after, id) /\ Get(after, id) = Get(before, id)
  /\ ~Has(before, projectId) => after = before

\* every call of a pair leaves the projects of the other ids unchanged, on both stores
CallsAreLocal ==
  [][ \A k \in 1..2 :
        (calls = k - 1 /\ calls' = k) =>
          /\ OthersUntouched(projects, projects', plan[k].projectId)
          /\ OthersUntouched(mirror, mirror', plan[3 - k].projectId) ]_vars

\* project as it reads when updatedAt is left out
WithoutUpdatedAt(project) == [project EXCEPT !.updatedAt = 0]

\* the pair holds an update of a stored project
Updates(projectId) ==
  \E k \in 1..2 : plan[k].op = "update" /\ plan[k].projectId = projectId

\* C21 (as stated): update, delete and recordEvent on one id leave the project of
\* every other id unchanged, and two calls on different ids give the same final
\* store in either order.
LocalCallsCommute ==
  /\ CallsAreLocal
  /\ [](calls = 2 => projects = mirror)

\* C21 (amended): update, delete and recordEvent on one id leave the project of every
\* other id unchanged, and two calls on different ids give, in either order, final
\* stores that hold the same projects in the same order and differ at most in the
\* updatedAt of a project that update changed, which is the time of that call.
LocalCallsCommuteButForUpdatedAt ==
  /\ CallsAreLocal
  /\ [](calls = 2 =>
          /\ Len(projects) = Len(mirror)
          /\ \A i \in 1..Len(projects) :
               /\ WithoutUpdatedAt(projects[i]) = WithoutUpdatedAt(mirror[i])
               /\ projects[i].updatedAt # mirror[i].updatedAt => Updates(projects[i].id))

\* C21 witness: an event was recorded on project 1 and project 2 was deleted, in one
\* order on one store and in the other order on the other, and both stores hold
\* project 1 alone with the event in its log.
LocalCallsWitness ==
  /\ calls = 2
  /\ plan # <<>>
  /\ plan[1].op = "recordEvent" /\ plan[1].projectId = 1
  /\ plan[2].op = "delete" /\ plan[2].projectId = 2
  /\ Len(projects) = 1
  /\ Len(projects[1].eventLog) = 2
  /\ projects = mirror

(***************************************************************************)
(* Subscribers and writers (SpecLive).                                     *)
(***************************************************************************)
\* C22: a step in which a subscriber connects, reads or closes changes no project of
\* the store; every request that has been sent is eventually answered, with no step
\* required of any subscriber; and while a subscriber stays closed nothing is put on
\* its socket and it reads nothing.
SubscribersCannotStall ==
  /\ [][ \A s \in Subscribers :
           /\ (sock'[s] # sock[s] \/ received'[s] # received[s]) => projects' = projects
           /\ (sock[s] = "closed" /\ sock'[s] = "closed") =>
                /\ wire[s] = <<>>
                /\ wire'[s] = <<>>
                /\ received'[s] = received[s] ]_vars
  /\ \A w \in Writers : (pending[w] # None) ~> (pending[w] = None /\ done[w].code # 0)

\* C22 witness: a subscriber connected, left messages unread and closed; both
\* writers' requests have been answered with success, one of them after the
\* subscriber had closed, and nothing is on the closed socket.
SubscribersWitness ==
  /\ connects = 1
  /\ sock["s1"] = "closed"
  /\ wire["s1"] = <<>>
  /\ done["w1"].code = 201
  /\ done["w2"].code = 202
  /\ Len(published) = 3
  /\ Len(replica["s1"].projects) < Len(projects)

(***************************************************************************)
(* The socket's message handler: two subscribers are connected and send    *)
(* frames to the server while a writer deletes projects.                   *)
(***************************************************************************)
MaxFrames == 2

\* JSON.parse(buffer.toString()) followed by parsed?.type; ok is FALSE when
\* JSON.parse throws
JsonParse(frame) ==
  CASE frame = "{\"type\":\"ping\"}" -> [ok |-> TRUE, type |-> Some("ping")]
    [] frame = "null" -> [ok |-> TRUE, type |-> None]
    [] OTHER -> [ok |-> FALSE, type |-> None]

\* a variant of socket.send that sends to every open client
SocketSendToAll(s, messages) ==
  wire' = [t \in DOMAIN sock |->
             IF sock[t] = "open"
             THEN wire[t] \o [i \in 1..Len(messages) |-> JsonMessage(messages[i])]
             ELSE wire[t]]

\* socket.send(JSON.stringify(message)) for each message of the list
SocketSend(s, messages) ==
  wire' = [wire EXCEPT ![s] = @ \o [i \in 1..Len(messages) |-> JsonMessage(messages[i])]]

\* both subscribers have connected to a server that holds one project
InitSocket ==
  /\ ReducerIdle
  /\ OrderIdle
  /\ projects = << createInitialProject(CreatePayload(Some("lab"), Some(LabTopology)), 1, 1) >>
  /\ uuid = 2
  /\ clock = 2
  /\ calls = 0
  /\ lastCall = NoCall
  /\ pending = [w \in Writers |-> None]
  /\ done = [w \in Writers |-> NoResponse]
  /\ sock = [s \in {"s1", "s2"} |-> "open"]
  /\ wire = [s \in {"s1", "s2"} |->
               << JsonMessage([Message("projects.initial") EXCEPT
                                 !.projects = StoreList(projects)]) >>]
  /\ replica = [s \in {"s1", "s2"} |-> EmptyReplica]
  /\ sent = 0
  /\ connects = 2
  /\ overlap = None
  /\ published = <<>>
  /\ joined = [s \in {"s1", "s2"} |-> 0]
  /\ received = [s \in {"s1", "s2"} |-> <<>>]
  /\ frames = [s \in {"s1", "s2"} |-> [sent |-> 0, handled |-> 0, queue |-> <<>>]]

\* a subscriber sends a frame: a ping, another JSON value, or one of two texts that
\* are not JSON
SendFrame ==
  \E s \in DOMAIN sock, frame \in {"{\"type\":\"ping\"}", "null", "{oops", ""} :
    /\ sock[s] = "open"
    /\ frames["s1"].sent + frames["s2"].sent < MaxFrames
    /\ frames' = [frames EXCEPT ![s].sent = @ + 1, ![s].queue = Append(@, frame)]
    /\ UNCHANGED <<reducerVars, orderVars, storeVars, pending, done, sock, wire, replica,
                   sent, connects, overlap, published, joined, received>>

\* socket.on('message'): a ping is answered with pong, a frame that JSON.parse
\* rejects with error, anything else with nothing
HandleFrame ==
  \E s \in DOMAIN sock :
    /\ sock[s] = "open"
    /\ frames[s].queue # <<>>
    /\ frames' = [frames EXCEPT ![s].handled = @ + 1, ![s].queue = Tail(@)]
    /\ LET parsed == JsonParse(Head(frames[s].queue))
       IN  IF ~parsed.ok
           THEN /\ SocketSend(s, << [Message("error") EXCEPT
                                       !.message = Some("Invalid message payload")] >>)
                /\ clock' = clock
           ELSE IF parsed.type = Some("ping")
           THEN /\ SocketSend(s, << [Message("pong") EXCEPT !.timestamp = Some(clock)] >>)
                /\ clock' = clock + 1
           ELSE /\ SocketSend(s, <<>>)
                /\ clock' = clock
    /\ UNCHANGED <<reducerVars, orderVars, projects, uuid, calls, lastCall, pending, done,
                   sock, replica, sent, connects, overlap, published, joined, received>>

NextSocket ==
  \/ SendFrame
  \/ HandleFrame
  \/ SendDelete
  \/ HandleDelete
  \/ Deliver
  \/ Close

SpecSocket == InitSocket /\ [][NextSocket]_vars

\* the server handles the oldest frame of subscriber s in the step
HandlesFrame(s) == frames'[s].handled = frames[s].handled + 1

\* C23: when the server handles a frame of a subscriber, the store and every socket's
\* state stay as they were and nothing is put on any other subscriber's socket; for a
\* frame that is not JSON exactly one message, error, is put on the sender's socket,
\* and for a ping exactly one message, pong.  Whatever a later step publishes is
\* still put on the socket of every open subscriber, the sender included.
FrameIsAnsweredToSenderOnly ==
  [][ /\ \A s \in DOMAIN sock :
           HandlesFrame(s) =>
             LET frame == Head(frames[s].queue)
                 reply == wire'[s][Len(wire'[s])]
             IN  /\ projects' = projects
                 /\ sock' = sock
                 /\ published' = published
                 /\ \A t \in DOMAIN sock \ {s} : wire'[t] = wire[t]
                 /\ frame \in {"{oops", ""} =>
                      /\ Len(wire'[s]) = Len(wire[s]) + 1
                      /\ SubSeq(wire'[s], 1, Len(wire[s])) = wire[s]
                      /\ reply = [Message("error") EXCEPT
                                    !.message = Some("Invalid message payload")]
                 /\ frame = "{\"type\":\"ping\"}" =>
                      /\ Len(wire'[s]) = Len(wire[s]) + 1
                      /\ SubSeq(wire'[s], 1, Len(wire[s])) = wire[s]
                      /\ reply.type = "pong"
                      /\ reply.timestamp # None
      /\ NewlyPublished # <<>> =>
           \A s \in DOMAIN sock :
             sock[s] = "open" =>
               wire'[s] = wire[s] \o [i \in 1..Len(NewlyPublished) |->
                                        JsonMessage(NewlyPublished[i])] ]_vars

\* C23 witness: subscriber s1 sent a frame that is not JSON and then a ping, and a
\* project was deleted afterwards; s1 has read the initial list, error, pong and
\* project.deleted, in this order, while s2, still open, has been sent the initial
\* list and project.deleted only; the store holds no project because of the delete.
FrameWitness ==
  /\ frames["s1"] = [sent |-> 2, handled |-> 2, queue |-> <<>>]
  /\ sock["s1"] = "open"
  /\ sock["s2"] = "open"
  /\ Len(received["s1"]) = 4
  /\ received["s1"][2].type = "error"
  /\ received["s1"][3].type = "pong"
  /\ received["s1"][4].type = "project.deleted"
  /\ Len(received["s2"] \o wire["s2"]) = 2
  /\ (received["s2"] \o wire["s2"])[2].type = "project.deleted"
  /\ projects = <<>>

\* C24: a call of update on a stored project leaves id, createdAt and eventLog as they
\* were, stamps updatedAt with the time of the call, leaves each of name, description,
\* topology, simulation, playback, scenarios and tags as it was unless the payload
\* supplies it, leaves the metrics as they were when the payload supplies a
\* simulation patch without metrics, and changes no other project.
UpdateChangesSuppliedFieldsOnly ==
  [][ (calls' = calls + 1 /\ lastCall'.op = "update" /\ lastCall'.found) =>
        LET projectId == lastCall'.projectId[1]
            payload   == lastCall'.update[1]
            before    == Get(projects, projectId)
            after     == Get(projects', projectId)
        IN  /\ Has(projects', projectId)
            /\ Len(projects') = Len(projects)
            /\ OthersUntouched(projects, projects', projectId)
            /\ after.id = before.id
            /\ after.createdAt = before.createdAt
            /\ after.eventLog = before.eventLog
            /\ after.updatedAt = clock
            /\ payload.name = None => after.name = before.name
            /\ payload.description = None => after.description = before.description
            /\ payload.topology = None => after.topology = before.topology
            /\ payload.simulation = None => after.simulation = before.simulation
            /\ payload.playback = None => after.playback = before.playback
            /\ payload.scenarios = None => after.scenarios = before.scenarios
            /\ payload.tags = None => after.tags = before.tags
            /\ (payload.simulation # None /\ payload.simulation[1].metrics = None) =>
                 after.simulation.metrics = before.simulation.metrics ]_vars

\* C24 witness: update with a simulation patch that has a status and no metrics was
\* called on a project whose log is not empty and whose metrics count dropped
\* packets; the project has the patch's status and still counts them.
UpdateWitness ==
  /\ lastCall.op = "update"
  /\ lastCall.found
  /\ lastCall.update[1].simulation # None
  /\ lastCall.update[1].simulation[1].metrics = None
  /\ LET project == Get(projects, lastCall.projectId[1])
     IN  /\ project.simulation.status = "paused"
         /\ project.simulation.metrics.droppedPackets > 0
         /\ project.eventLog # <<>>
         /\ project.updatedAt > project.createdAt

\* C25: a call of delete reports whether the id was stored, and the store afterwards
\* holds the projects it held before without that id, in the same order (so it is
\* unchanged when the id was not stored).  A delete that follows a delete of the same
\* id changes nothing and reports false; a call of get, update or recordEvent on an id
\* that is not stored, as is the id of a successful delete, reports not-found and
\* changes nothing.
DeleteRemovesOnce ==
  [][ (calls' = calls + 1 /\ lastCall'.projectId # None) =>
        LET projectId == lastCall'.projectId[1]
        IN  /\ lastCall'.op = "delete" =>
                 /\ lastCall'.found = (\E i \in 1..Len(projects) : projects[i].id = projectId)
                 /\ projects' = SelectSeq(projects, LAMBDA p : p.id # projectId)
                 /\ \A i \in 1..Len(projects') : projects'[i].id # projectId
            /\ (lastCall.op = "delete" /\ lastCall'.op = "delete"
                  /\ lastCall.projectId = lastCall'.projectId) =>
                 /\ projects' = projects
                 /\ ~lastCall'.found
            /\ (lastCall.op = "delete" /\ lastCall.found
                  /\ lastCall.projectId = lastCall'.projectId) =>
                 ~lastCall'.found
            /\ (lastCall'.op \in {"get", "update", "recordEvent"}
                  /\ \A i \in 1..Len(projects) : projects[i].id # projectId) =>
                 /\ projects' = projects
                 /\ ~lastCall'.found ]_vars

\* C25 witness: the stored project 1 was deleted and delete was called on id 1 again:
\* the second call reports false and the store is empty, as after the first.
DeleteTwiceWitness ==
  /\ calls = 2
  /\ uuid = 2
  /\ lastCall.op = "delete"
  /\ lastCall.projectId = Some(1)
  /\ ~lastCall.found
  /\ projects = <<>>

\* writer w's create request is answered 201 in the step
Creates(w) ==
  /\ pending[w] # None
  /\ pending[w][1].op = "create"
  /\ pending'[w] = None
  /\ done'[w].code = 201

\* the project the step adds to the store
Created == projects'[Len(projects')]

\* project is as new: idle at tick 0, nothing measured, no event
IsNew(project) ==
  /\ project.simulation.status = "idle"
  /\ project.simulation.currentTick = 0
  /\ project.simulation.metrics.totalPackets = 0
  /\ project.simulation.metrics.droppedPackets = 0
  /\ project.simulation.metrics.averageLatencyMs = FromInt(0)
  /\ project.simulation.metrics.throughputMbps = 0
  /\ project.simulation.lastEventId = None
  /\ project.eventLog = <<>>

\* an accepted create adds one project, under an id no stored project has, and
\* leaves the stored projects as they are
CreateAddsOne ==
  /\ Len(projects') = Len(projects) + 1
  /\ SubSeq(projects', 1, Len(projects)) = projects
  /\ \A i \in 1..Len(projects) : projects[i].id # Created.id
  /\ NewlyPublished = << [Message("project.created") EXCEPT !.project = Some(Created)] >>

\* C26 as stated: the project of every accepted create request has no device and no
\* link, is idle at tick 0 with all metrics 0, no lastEventId and an empty eventLog,
\* has an id no stored project has, and the stored projects are unchanged.
CreatedIsEmpty ==
  [][ \A w \in Writers :
        Creates(w) =>
          /\ CreateAddsOne
          /\ IsNew(Created)
          /\ Created.topology.devices = <<>>
          /\ Created.topology.links = <<>> ]_vars

\* C26 amended: the project of every accepted create request has the devices and
\* links of the request's topology and the request's name, is idle at tick 0 with all
\* metrics 0, no lastEventId and an empty eventLog, has an id no stored project has,
\* and the stored projects are unchanged.
CreatedHasRequestedTopology ==
  [][ \A w \in Writers :
        Creates(w) =>
          /\ CreateAddsOne
          /\ IsNew(Created)
          /\ Created.name = pending[w][1].create[1].name[1]
          /\ Created.topology.devices = pending[w][1].create[1].topology[1].devices
          /\ Created.topology.links = pending[w][1].create[1].topology[1].links ]_vars

\* C26 witness: a create request with a topology of one device was answered 201 while
\* the store held a project; the store holds both, the new one under another id, with
\* that device and an empty log.
CreatedWitness ==
  /\ \E w \in Writers : done[w].op = "create" /\ done[w].code = 201
  /\ Len(projects) = 2
  /\ projects[1].id # projects[2].id
  /\ Len(projects[2].topology.devices) = 1
  /\ projects[2].simulation.status = "idle"
  /\ projects[2].eventLog = <<>>

\* C27 as stated: no two entries of the event logs of the stored projects, in one log
\* or in two, have the same id.
EventIdsAreUnique ==
  \A i, j \in 1..Len(projects) :
    \A a \in 1..Len(projects[i].eventLog), b \in 1..Len(projects[j].eventLog) :
      (i # j \/ a # b) => projects[i].eventLog[a].id # projects[j].eventLog[b].id

TenThenThirty ==
  /\ Len(applied) >= seeded + 2
  /\ applied[seeded + 1].type = "packet.transmitted"
  /\ applied[seeded + 1].latencyMs = FromInt(10)
  /\ applied[seeded + 2].type = "packet.transmitted"
  /\ applied[seeded + 2].latencyMs = FromInt(30)

\* C29: a step that applies a packet.transmitted event with a latency L to a project
\* with totalPackets n and averageLatencyMs a gives totalPackets n + 1 and
\* averageLatencyMs L when n = 0 and (a * n + L) / (n + 1), in double arithmetic,
\* otherwise, and leaves droppedPackets, throughputMbps, status and currentTick as they
\* were.  Latencies 10 then 30 applied to a project that has counted no packet give
\* totalPackets 2 and averageLatencyMs 20, and a packet.dropped event applied next
\* leaves both.
RunningMeanRecurrence ==
  /\ [][ (Len(applied') = Len(applied) + 1 /\ AppliedEvent.type = "packet.transmitted"
            /\ AppliedEvent.latencyMs.tag = "number") =>
           LET n == Metrics.totalPackets
               a == Metrics.averageLatencyMs
               L == AppliedEvent.latencyMs
           IN  /\ Metrics'.totalPackets = n + 1
               /\ Metrics'.averageLatencyMs
                    = IF n = 0 THEN L ELSE JsDivInt(JsAdd(JsMulInt(a, n), L), n + 1)
               /\ Metrics'.droppedPackets = Metrics.droppedPackets
               /\ Metrics'.throughputMbps = Metrics.throughputMbps
               /\ aggregate'.simulation.status = aggregate.simulation.status
               /\ aggregate'.simulation.currentTick = aggregate.simulation.currentTick ]_vars
  /\ [](TenThenThirty =>
          /\ Len(applied) = seeded + 2 =>
               Metrics.totalPackets = 2 /\ Metrics.averageLatencyMs = FromInt(20)
          /\ (Len(applied) = seeded + 3 /\ applied[seeded + 3].type = "packet.dropped") =>
               Metrics.totalPackets = 2 /\ Metrics.averageLatencyMs = FromInt(20))

\* C29 witness: latencies 10 and 30 and then a dropped packet have been applied to a
\* new project: two packets counted, average 20, one packet dropped.
RunningMeanWitness ==
  /\ seeded = 0
  /\ TenThenThirty
  /\ Len(applied) = 3
  /\ applied[3].type = "packet.dropped"
  /\ Metrics.totalPackets = 2
  /\ Metrics.averageLatencyMs = FromInt(20)
  /\ Metrics.droppedPackets = 1

\* C30: a step that applies a lifecycle event leaves the topology as it was and
\* changes the simulation state as the table says, lastEventId apart, which every
\* event sets: simulation.started sets status to the event's status, startedAt to
\* its timestamp and currentTick to 0; simulation.resumed and simulation.paused set
\* status and nothing else; simulation.stopped sets status and stoppedAt to the
\* event's timestamp.  So paused, resumed and stopped leave currentTick, startedAt and
\* the metrics as they were.
LifecycleFollowsTable ==
  [][ (Len(applied') = Len(applied) + 1 /\ AppliedEvent.type \in LifecycleKinds) =>
        LET event  == AppliedEvent
            before == [aggregate.simulation EXCEPT !.lastEventId = Some(event.id),
                                                   !.status = event.status[1]]
            after  == aggregate'.simulation
        IN  /\ aggregate'.topology = aggregate.topology
            /\ event.type = "simulation.started" =>
                 after = [before EXCEPT !.startedAt = Some(event.timestamp),
                                        !.currentTick = 0]
            /\ event.type \in {"simulation.resumed", "simulation.paused"} => after = before
            /\ event.type = "simulation.stopped" =>
                 after = [before EXCEPT !.stoppedAt = Some(event.timestamp)]
            /\ event.type # "simulation.started" =>
                 /\ after.currentTick = aggregate.simulation.currentTick
                 /\ after.startedAt = aggregate.simulation.startedAt
                 /\ after.metrics = aggregate.simulation.metrics ]_vars

\* C30 witness: a project with devices was started, ticked to 5 and stopped: it is
\* stopped at tick 5, started at the first event's time and stopped at the third's.
LifecycleWitness ==
  /\ Len(applied) = seeded + 3
  /\ applied[seeded + 1].type = "simulation.started"
  /\ applied[seeded + 2].type = "simulation.tick"
  /\ applied[seeded + 3].type = "simulation.stopped"
  /\ aggregate.simulation.status = "stopped"
  /\ aggregate.simulation.currentTick = 5
  /\ aggregate.simulation.startedAt = Some(applied[seeded + 1].timestamp)
  /\ aggregate.simulation.stoppedAt = Some(applied[seeded + 3].timestamp)
  /\ aggregate.topology.devices # <<>>
  /\ aggregate.topology = fresh.topology

\* C31: a step that applies a simulation.tick event sets currentTick to the event's
\* tick, whatever the tick and the status were before, and leaves the rest of the
\* simulation state, status and metrics among it, as it was (lastEventId apart,
\* which every event sets).
TickIsPermissive ==
  [][ (Len(applied') = Len(applied) + 1 /\ AppliedEvent.type = "simulation.tick") =>
        /\ aggregate'.simulation.currentTick = AppliedEvent.tick[1]
        /\ aggregate'.simulation.status = aggregate.simulation.status
        /\ aggregate'.simulation.metrics = aggregate.simulation.metrics
        /\ aggregate'.simulation
             = [aggregate.simulation EXCEPT !.currentTick = AppliedEvent.tick[1],
                                            !.lastEventId = Some(AppliedEvent.id)] ]_vars

\* C31 witness: a project ticked to 5 was stopped and then ticked to 2: it is stopped
\* at tick 2.
TickWitness ==
  /\ Len(applied) = seeded + 3
  /\ applied[seeded + 1].type = "simulation.tick"
  /\ applied[seeded + 1].tick = Some(5)
  /\ applied[seeded + 2].type = "simulation.stopped"
  /\ applied[seeded + 3].type = "simulation.tick"
  /\ applied[seeded + 3].tick = Some(2)
  /\ aggregate.simulation.status = "stopped"
  /\ aggregate.simulation.currentTick = 2

\* everything subscriber s has been sent on its connection, read or not
SentTo(s) == received[s] \o wire[s]

\* C32: a step that accepts an event publishes simulation.event carrying the event and
\* then project.updated carrying the project as stored by the step, these two and
\* nothing else, and puts both, in this order, at the end of what every open
\* subscriber has been sent.  So in what a subscriber has been sent on its connection
\* every simulation.event is followed at once by the project.updated of the same
\* project, whose lastEventId is the event's id.
EventThenProject ==
  /\ [][ \A w \in Writers :
           (Answers(w) /\ done'[w].code = 202) =>
             LET event   == done'[w].event
                 project == Get(projects', pending[w][1].projectId)
                 pair    == << [Message("simulation.event") EXCEPT !.event = event],
                               [Message("project.updated") EXCEPT !.project = Some(project)] >>
             IN  /\ event # None
                 /\ project.eventLog[Len(project.eventLog)] = event[1]
                 /\ NewlyPublished = pair
                 /\ \A s \in Subscribers :
                      sock[s] = "open" =>
                        wire'[s] = wire[s] \o << JsonMessage(pair[1]), JsonMessage(pair[2]) >>
       ]_vars
  /\ [](\A s \in Subscribers :
          \A i \in 1..Len(SentTo(s)) :
            SentTo(s)[i].type = "simulation.event" =>
              /\ i < Len(SentTo(s))
              /\ SentTo(s)[i + 1].type = "project.updated"
              /\ SentTo(s)[i + 1].project[1].id = SentTo(s)[i].event[1].projectId
              /\ SentTo(s)[i + 1].project[1].simulation.lastEventId
                   = Some(SentTo(s)[i].event[1].id))

\* C32 witness: two events were accepted while the subscriber was open: it has read
\* the initial list and then, twice, simulation.event followed by project.updated.
EventThenProjectWitness ==
  /\ sock["s1"] = "open"
  /\ wire["s1"] = <<>>
  /\ Len(received["s1"]) = 5
  /\ received["s1"][1].type = "projects.initial"
  /\ received["s1"][2].type = "simulation.event"
  /\ received["s1"][3].type = "project.updated"
  /\ received["s1"][4].type = "simulation.event"
  /\ received["s1"][5].type = "project.updated"
  /\ received["s1"][4].event[1].id # received["s1"][2].event[1].id

(***************************************************************************)
(* A project that has grown large: its topology and the topologies kept in *)
(* its 255 events each carry metadata of the size of the body limit, and   *)
(* writers go on posting such events and updating the project.             *)
(***************************************************************************)
InitBulk ==
  /\ ReducerIdle
  /\ HubIdle
  /\ OrderIdle
  /\ calls = 0
  /\ lastCall = NoCall
  /\ projects = << ApplyAll(createInitialProject(
                              CreatePayload(Some("lab"), Some(BulkyTopology)), 1, 1),
                            [k \in 1..255 |->
                               hydratedEvent([Body(Some("topology.updated")) EXCEPT
                                                !.topology = Some(BulkyTopology)],
                                             1, k + 1, k + 1)]) >>
  /\ uuid = 257
  /\ clock = 257

PostBulky ==
  \E w \in Writers, projectId \in Ids(projects) \cup MissingIds :
    Send(w, [Request("submitEvent", projectId) EXCEPT
               !.event = Some([Body(Some("topology.updated")) EXCEPT
                                 !.topology = Some(BulkyTopology)])])

NextBulk ==
  \/ PostBulky
  \/ SendEvent
  \/ SendUpdate
  \/ HandleSubmitEvent
  \/ HandleUpdate

SpecBulk == InitBulk /\ [][NextBulk]_vars

\* C33 as stated: a request that is answered with the internal error, 500, leaves
\* every stored project exactly as it was before the request.
FailureLeavesStoreUntouched ==
  [][ \A w \in Writers : (Answered(w) /\ done'[w].code = 500) => projects' = projects ]_vars

\* C34: every stored project has a playback state whose speedMultiplier is greater
\* than 0, and a call of update that supplies a playback patch with a speedMultiplier
\* stores it when it is positive and 1 when it is not.
SpeedStaysPositive ==
  /\ [](\A i \in 1..Len(projects) : projects[i].playback.speedMultiplier > 0)
  /\ [][ (calls' = calls + 1 /\ lastCall'.op = "update" /\ lastCall'.found
            /\ lastCall'.update[1].playback # None
            /\ lastCall'.update[1].playback[1].speedMultiplier # None) =>
           LET supplied == lastCall'.update[1].playback[1].speedMultiplier[1]
               stored   == Get(projects', lastCall'.projectId[1]).playback.speedMultiplier
           IN  stored = IF supplied > 0 THEN supplied ELSE 1 ]_vars

\* C34 witness: the second of two calls was an update of a stored project that supplied
\* the speedMultiplier -2 alone: the project has 1 and was stamped by the call.
SpeedWitness ==
  /\ calls = 2
  /\ lastCall.op = "update"
  /\ lastCall.found
  /\ lastCall.update[1].playback # None
  /\ lastCall.update[1].playback[1].speedMultiplier = Some(0 - 2)
  /\ LET project == Get(projects, lastCall.projectId[1])
     IN  /\ project.playback.speedMultiplier = 1
         /\ project.updatedAt > project.createdAt

\* C35: each stored project's simulation.lastEventId agrees with its log: it is absent
\* when the eventLog is empty and otherwise the id of the last eventLog entry.
LastEventIdAgreesWithLog ==
  \A i \in 1..Len(projects) :
    LET project == projects[i]
    IN  project.simulation.lastEventId =
          IF project.eventLog = <<>> THEN None
          ELSE Some(project.eventLog[Len(project.eventLog)].id)

\* C36: every event in the eventLog of a stored project has the project's id as its
\* projectId, whatever projectId the body of the request had.
LoggedEventsBelongToProject ==
  \A i \in 1..Len(projects) :
    \A k \in 1..Len(projects[i].eventLog) :
      projects[i].eventLog[k].projectId = projects[i].id

\* C36 witness: the event whose body named project 7 is in the log of the project of
\* the request path, with that project's id.
BodyProjectIdWitness ==
  \E i \in 1..Len(projects) :
    \E k \in 1..Len(projects[i].eventLog) :
      /\ projects[i].eventLog[k].id = 98
      /\ projects[i].id # 7
      /\ projects[i].eventLog[k].projectId = projects[i].id

\* the store after the mutations that messages notify, made one after the other on
\* the store start
RECURSIVE Replay(_, _)
Replay(start, messages) ==
  IF messages = <<>> THEN start
  ELSE LET message == Head(messages)
           next    == CASE message.type \in {"project.created", "project.updated"} ->
                             Put(start, message.project[1])
                        [] message.type = "project.deleted" ->
                             Remove(start, message.projectId[1])
                        [] OTHER -> start
       IN  Replay(next, Tail(messages))

\* C37: no gap and no duplicate between snapshot and stream.  The notifications
\* published are the mutations committed, in order; for every open subscriber the
\* projects.initial it was sent lists the store as the mutations committed before
\* its connection left it, and the messages sent to it after that are, once each and
\* in order, the notifications of the mutations committed since.
SnapshotMeetsStream ==
  \E start \in { <<>>,
                 << createInitialProject(CreatePayload(Some("lab"), Some(LabTopology)),
                                         1, 1) >> } :
    /\ projects = Replay(start, published)
    /\ \A s \in Subscribers :
         sock[s] = "open" =>
           /\ SentTo(s) # <<>>
           /\ SentTo(s)[1] =
                JsonMessage([Message("projects.initial") EXCEPT
                               !.projects =
                                 StoreList(Replay(start, SubSeq(published, 1, joined[s])))])
           /\ Tail(SentTo(s)) = PublishedSince(s)

\* C37 witness: a subscriber connected between an update and an accepted event of
\* the same project: the initial list it read has the project as updated and with
\* an empty log, and the only notifications it read are those of the event.
SnapshotWitness ==
  /\ sock["s1"] = "open"
  /\ joined["s1"] = 1
  /\ Len(published) = 3
  /\ published[1].type = "project.updated"
  /\ published[1].project[1].name = "edge"
  /\ Len(received["s1"]) = 3
  /\ Len(received["s1"][1].projects) = 1
  /\ received["s1"][1].projects[1].name = "edge"
  /\ received["s1"][1].projects[1].eventLog = <<>>
  /\ received["s1"][2].type = "simulation.event"
  /\ received["s1"][3].type = "project.updated"
  /\ Len(received["s1"][3].project[1].eventLog) = 1

\* the id of the project a published message is about
About(message) ==
  CASE message.type \in {"project.created", "project.updated"} -> message.project[1].id
    [] message.type = "simulation.event" -> message.event[1].projectId
    [] message.type = "project.deleted" -> message.projectId[1]

\* a project.deleted for the id has been published
DeletedIsPublished(id) ==
  \E i \in 1..Len(published) :
    published[i].type = "project.deleted" /\ About(published[i]) = id

\* C38: after project.deleted for an id has been published, no simulation.event,
\* project.updated or project.created for that id is published: a request for that
\* id that is handled later is refused and publishes nothing.
NothingAfterDeleted ==
  /\ [](\A i \in 1..Len(published) :
          published[i].type = "project.deleted" =>
            \A j \in (i + 1)..Len(published) :
              published[j].type
                  \in {"simulation.event", "project.updated", "project.created"}
                => About(published[j]) # About(published[i]))
  /\ [][ \A w \in Writers :
           (/\ Answered(w)
            /\ pending[w][1].op \in {"update", "submitEvent"}
            /\ DeletedIsPublished(pending[w][1].projectId)) =>
             /\ published' = published
             /\ projects' = projects
             /\ done'[w].code \in {400, 404} ]_vars

\* C38 witness: a delete and an event were in flight for the same stored project;
\* the delete was handled first and published, with the event still to be handled.
DeleteWinsWitness ==
  /\ Len(published) = 1
  /\ published[1].type = "project.deleted"
  /\ ~Has(projects, About(published[1]))
  /\ \E w \in Writers :
       /\ done[w].op = "delete" /\ done[w].code = 204
       /\ pending[Other(w)] # None
       /\ pending[Other(w)][1].op = "submitEvent"
       /\ pending[Other(w)][1].projectId = About(published[1])

LifecycleTypes ==
  {"simulation.started", "simulation.resumed", "simulation.paused", "simulation.stopped"}

\* the type of the most recent lifecycle event among events, "none" when there is none
LastLifecycle(events) ==
  LET at == { k \in 1..Len(events) : events[k].type \in LifecycleTypes }
  IN  IF at = {} THEN "none"
      ELSE events[CHOOSE k \in at : \A j \in at : j <= k].type

\* C39: in every state reached from a newly created project by applied events,
\* playback.cursorEventId is simulation.lastEventId, playback.cursorTick is
\* simulation.currentTick, and playback.isPlaying is true exactly when the most
\* recent lifecycle event applied is simulation.started or simulation.resumed.
CursorTracksSimulation ==
  /\ aggregate.playback.cursorEventId = aggregate.simulation.lastEventId
  /\ aggregate.playback.cursorTick = aggregate.simulation.currentTick
  /\ aggregate.playback.isPlaying
       <=> LastLifecycle(applied) \in {"simulation.started", "simulation.resumed"}

\* C39 witness: a tick to 5, then simulation.started, then a dropped packet: the
\* cursor is at tick 0 and at the last event, and the playback is playing.
CursorWitness ==
  /\ Len(applied) = seeded + 3
  /\ applied[seeded + 1].type = "simulation.tick"
  /\ applied[seeded + 1].tick = Some(5)
  /\ applied[seeded + 2].type = "simulation.started"
  /\ applied[seeded + 3].type = "packet.dropped"
  /\ aggregate.playback.cursorTick = 0
  /\ aggregate.playback.cursorEventId = Some(applied[seeded + 3].id)
  /\ aggregate.playback.isPlaying

(***************************************************************************)
(* The replica store called directly (SpecReplica): setProjects,           *)
(* upsertProject, removeProject, recordSimulationEvent and reset, in any   *)
(* order, on a replica that is empty or already holds two projects and the *)
(* events recorded for them.                                               *)
(***************************************************************************)
\* a project as the server sends it
ListedProject(id) ==
  PartialProject(JsonProject(
    createInitialProject(CreatePayload(Some("lab"), Some(LabTopology)), id, id)))

\* recordSimulationEvent for events[lo], ..., events[hi], in this order (by halves:
\* the recursion stays shallow, and the test of the first half has it evaluated
\* before the second)
RECURSIVE RecordRange(_, _, _, _)
RecordRange(state, events, lo, hi) ==
  IF lo > hi THEN state
  ELSE IF lo = hi THEN recordSimulationEvent(state, events[lo])
  ELSE LET half == RecordRange(state, events, lo, (lo + hi) \div 2)
       IN  IF Len(half.projects) = Len(state.projects)
           THEN RecordRange(half, events, ((lo + hi) \div 2) + 1, hi)
           ELSE half

InitReplica ==
  /\ ReducerIdle
  /\ OrderIdle
  /\ StoreIdle
  /\ pending = [w \in Writers |-> None]
  /\ done = [w \in Writers |-> NoResponse]
  /\ sock = [s \in Subscribers |-> "closed"]
  /\ wire = [s \in Subscribers |-> <<>>]
  /\ sent = 0
  /\ connects = 0
  /\ overlap = None
  /\ published = <<>>
  /\ joined = [s \in Subscribers |-> 0]
  /\ received = [s \in Subscribers |-> <<>>]
  /\ frames = [s \in Subscribers |-> [sent |-> 0, handled |-> 0, queue |-> <<>>]]
  /\ \E recorded \in {0, 1, MAX_EVENT_LOG_ENTRIES} :
       LET listed == setProjects(EmptyReplica, << ListedProject(1), ListedProject(2) >>)
           events == [k \in 1..recorded |->
                        JsonEvent(SeedEvent(k, IF k = 1 THEN 2 ELSE 1))]
       IN  replica = [s \in Subscribers |->
                        IF recorded = 0 THEN EmptyReplica
                        ELSE RecordRange(listed, events, 1, recorded)]

\* one call of a method of the replica store: state is what it sets
Replicated(op, projectId, event, state) ==
  /\ calls < MaxCalls
  /\ calls' = calls + 1
  /\ lastCall' = [op |-> op, projectId |-> projectId, event |-> event, update |-> None,
                  found |-> /\ projectId # None
                            /\ Has(replica["s1"].projects, projectId[1])]
  /\ replica' = [replica EXCEPT !["s1"] = state]
  /\ UNCHANGED <<reducerVars, orderVars, projects, uuid, clock, pending, done, sock, wire,
                 sent, connects, overlap, published, joined, received, frames>>

CallSetProjects ==
  \E listed \in { <<>>, << ListedProject(1) >>, << ListedProject(2) >>,
                  << ListedProject(1), ListedProject(2) >> } :
    Replicated("setProjects", None, None, setProjects(replica["s1"], listed))

CallUpsertProject ==
  \E id \in 1..3 :
    Replicated("upsertProject", Some(id), None, upsertProject(replica["s1"], ListedProject(id)))

CallRemoveProject ==
  \E id \in 1..3 :
    Replicated("removeProject", Some(id), None, removeProject(replica["s1"], id))

CallRecordSimulationEvent ==
  \E id \in 1..3, body \in DroppedBodies \cup TopologyBodies :
    LET event == JsonEvent(hydratedEvent(body, id, 1000 + calls, 1000 + calls))
    IN  Replicated("recordSimulationEvent", Some(id), Some(event),
                   recordSimulationEvent(replica["s1"], event))

CallReset == Replicated("reset", None, None, reset(replica["s1"]))

NextReplica ==
  \/ CallSetProjects
  \/ CallUpsertProject
  \/ CallRemoveProject
  \/ CallRecordSimulationEvent
  \/ CallReset

SpecReplica == InitReplica /\ [][NextReplica]_vars

\* C40: in the replica store the global eventLog has at most 500 entries and every
\* entry's projectId is the key of a project the replica holds; and
\* recordSimulationEvent for a project the replica does not hold leaves the replica
\* as it was.
ReplicaLogBelongsToProjects ==
  /\ [](/\ Len(replica["s1"].eventLog) <= MAX_EVENT_LOG_ENTRIES
        /\ \A k \in 1..Len(replica["s1"].eventLog) :
             Has(replica["s1"].projects, replica["s1"].eventLog[k].projectId))
  /\ [][ (/\ calls' = calls + 1
          /\ lastCall'.op = "recordSimulationEvent"
          /\ ~lastCall'.found) => replica' = replica ]_vars

\* C40 witness: on a replica whose log was full, an event of project 1 was recorded,
\* which pushed the oldest entry (the one event of project 2) out; then an event of
\* project 3, which the replica does not hold, was passed and changed nothing.
ReplicaWitness ==
  /\ calls = 2
  /\ lastCall.op = "recordSimulationEvent"
  /\ lastCall.projectId = Some(3)
  /\ ~lastCall.found
  /\ Len(replica["s1"].eventLog) = MAX_EVENT_LOG_ENTRIES
  /\ replica["s1"].eventLog[MAX_EVENT_LOG_ENTRIES].id = 1000
  /\ replica["s1"].eventLog[MAX_EVENT_LOG_ENTRIES].projectId = 1
  /\ \A k \in 1..MAX_EVENT_LOG_ENTRIES : replica["s1"].eventLog[k].projectId = 1
  /\ Has(replica["s1"].projects, 2)
====
